---- MODULE Spec2Model ----
(***************************************************************************)
(* NetSuiteService: OAuth2 token lifecycle, the retrying request executor  *)
(* (#requestApi / #renewTokenWithNeeded / #requestAuthorizationToken) and  *)
(* the public facade (constructor, signIn, logout, requestGet/Post/Put/    *)
(* Delete, executeSuiteQl).                                                *)
(*                                                                         *)
(* Every await of the code is a suspension point: an action runs the code  *)
(* from one await to the next.  A response and the parsing of its body     *)
(* (fetch(...) followed by response.json()) arrive in one action, since    *)
(* the code touches no field of the instance between the two.              *)
(***************************************************************************)
EXTENDS Integers, Sequences, FiniteSets, TLC

VARIABLES
  constructed,      \* "new" before the constructor ran, then "ok" or "failed"
  ctorError,        \* message of the error the constructor threw, <<>> if none
  nsAccountId, nsClientId, nsClientSecret, nsScript, nsDeploy,
  isDebug, shouldLogToken,
  nsState, nsCode, nsAccessToken, nsRefreshToken,   \* Token State
  call,             \* the asynchronous operations in flight, by slot
  last,             \* the public operation invoked last
  args              \* the arguments the constructor was given

vars == <<constructed, ctorError, nsAccountId, nsClientId, nsClientSecret, nsScript,
          nsDeploy, isDebug, shouldLogToken, nsState, nsCode, nsAccessToken,
          nsRefreshToken, call, last, args>>

configVars == <<constructed, ctorError, nsAccountId, nsClientId, nsClientSecret,
                nsScript, nsDeploy, isDebug, shouldLogToken, args>>

tokenVars == <<nsState, nsCode, nsAccessToken, nsRefreshToken>>

---------------------------------------------------------------------------
(* Bounds of the model. *)

\* distinct access tokens / refresh tokens the token endpoint can hand out
NumTokens == 1
\* slots for asynchronous operations of one instance
NumCalls == 2
\* longest file name enumerated over TextAlphabet
MaxTextLen == 2

---------------------------------------------------------------------------
(* JavaScript values.  A string stands for itself; undefined and null are  *)
(* the atoms below, which are also what `${v}` and FormData.append turn    *)
(* them into.                                                              *)

Undefined == "undefined"
Null == "null"
EmptyStr == ""

\* !v of the code, for the values above and non-empty strings
Falsy(v) == v \in {Undefined, Null, EmptyStr}

MAX_RETRIES == 3

nsRedirectUri == "https://login.live.com/oauth20_desktop.srf"

\* the text the regular expression of #requestApi looks for
IOErrorMarker == "IO error during request payload read"

---------------------------------------------------------------------------
(* Inputs: what callers pass and what the remote side answers. *)

AccessTokens == {"A" \o ToString(i) : i \in 1..NumTokens}
RefreshTokens == {"R" \o ToString(i) : i \in 1..NumTokens}

\* constructor arguments: absent, empty or given
AccountIdArgs == {Undefined, EmptyStr, "6132245"}
ClientArgs == {Undefined, EmptyStr, "client"}
SecretArgs == {Undefined, EmptyStr, "secret"}
TokenArgs == {Undefined, "T0"}
ScriptArgs == {"1054"}
DebugArgs == BOOLEAN
DeployArgs == {Undefined}
LogTokenArgs == {Undefined}
\* process.env.MS_GRAPH_DEBUG: not set
MS_GRAPH_DEBUG == Undefined

\* the nonces randomUUID() can return and the codes the operator can type
Nonces == {"uuid1"}
Codes == {"code1"}

\* arguments of the request operations
Paths == {"/record/v1/invoice"}
Queries == {"SELECT 1"}
BodyArgs == {"payload"}
\* a headers argument: absent, or an object with Accept and Authorization entries
HeaderArgs == {Undefined, "hdrCaller"}

\* arguments of downloadFile: the folder is an absolute path
FileIds == {"524171"}
FolderArgs == {<<"/", "d">>}

\* The entries of a headers object, as a function from header names to values.
NoFields == [k \in {} |-> ""]
HeaderFields(h) ==
  CASE h = "hdrCaller" -> [Accept |-> "application/json", Authorization |-> "Basic caller"]
    [] h = "hdrPrefer" -> [Prefer |-> "transient"]
    [] OTHER -> NoFields

\* { ...a, ...b }: the entries of b win
Spread(a, b) == [k \in (DOMAIN a) \cup (DOMAIN b) |-> IF k \in DOMAIN b THEN b[k] ELSE a[k]]

(* A parsed response body.  json: "invalid" when response.json() rejects, *)
(* "null" for the JSON text null, "object" otherwise; error: whether the   *)
(* object has an error entry and whether it is truthy; message: the text   *)
(* of error.message as a sequence of fragments (<<"undefined">> when the   *)
(* error has no message, as the regular expression sees it).               *)
Body(j, e, m) == [json |-> j, error |-> e, message |-> m]
B_Ok == Body("object", "absent", <<>>)
B_FalsyErr == Body("object", "falsy", <<>>)
B_ErrMarker == Body("object", "truthy", <<IOErrorMarker>>)
B_ErrMarkerInText == Body("object", "truthy", <<"Remote: ", IOErrorMarker, " (retry)">>)
B_ErrOther == Body("object", "truthy", <<"Invalid login attempt">>)
B_ErrNoMsg == Body("object", "truthy", <<"undefined">>)
B_Null == Body("null", "absent", <<>>)
B_Invalid == Body("invalid", "absent", <<>>)
V_Undefined == Body("undefined", "absent", <<>>)

Bodies == {B_Ok, B_FalsyErr, B_ErrMarker, B_ErrMarkerInText, B_ErrOther, B_ErrNoMsg,
           B_Null, B_Invalid}

\* What a fetch of the REST API ends with: a rejection or a response.
Response(s, t, b) == [net |-> "response", status |-> s, statusText |-> t, body |-> b]
Rejected == [net |-> "rejected", status |-> 0, statusText |-> "", body |-> B_Invalid]
NoResponse == [net |-> "none", status |-> 0, statusText |-> "", body |-> B_Invalid]
ApiOutcomes ==
  {Rejected}
    \cup {Response(200, "OK", b) : b \in Bodies}
    \cup {Response(401, t, B_Invalid) : t \in {"Unauthorized", ""}}
    \cup {Response(500, "Internal Server Error", b) : b \in {B_Ok, B_ErrOther}}

\* What a fetch of the token endpoint ends with, body parsed.
TokenBody(n, j, e, m, a, r) ==
  [net |-> n, json |-> j, error |-> e, message |-> m, access_token |-> a, refresh_token |-> r]
NoAuthorization == TokenBody("none", "invalid", "absent", <<>>, Undefined, Undefined)
TokenOutcomes ==
  { TokenBody("rejected", "invalid", "absent", <<>>, Undefined, Undefined),
    TokenBody("response", "invalid", "absent", <<>>, Undefined, Undefined),
    TokenBody("response", "null", "absent", <<>>, Undefined, Undefined),
    TokenBody("response", "object", "truthy", <<"invalid_grant">>, Undefined, Undefined),
    TokenBody("response", "object", "truthy", <<>>, Undefined, Undefined) }
    \cup { TokenBody("response", "object", "absent", <<>>, a, r) :
             a \in AccessTokens, r \in RefreshTokens \cup {Undefined} }

\* An error is its message, a sequence of fragments; NoError is no error at all.
NoError == <<>>
FetchFailed == <<"TypeError: fetch failed">>
JsonSyntaxError == <<"SyntaxError: Unexpected token">>
NullPropertyError == <<"TypeError: Cannot read properties of null">>

---------------------------------------------------------------------------
(* URLs, headers and the requests the code builds. *)

GetApiUrl(accountId) == "https://" \o accountId \o ".suitetalk.api.netsuite.com/services/rest"

GetTokenUrl(accountId) == GetApiUrl(accountId) \o "/auth/oauth2/v1/token"

\* base64 of clientId:clientSecret, kept symbolic
GetClientAuth(clientId, clientSecret) == "base64(" \o clientId \o ":" \o clientSecret \o ")"

GetAuthHeader(accessToken) == [Authorization |-> "Bearer " \o accessToken]

\* the fetch of #internalRequest
InternalRequest(url, method, body, headers, accessToken) ==
  [ url |-> url, method |-> method,
    headers |-> Spread(GetAuthHeader(accessToken), HeaderFields(headers)),
    body |-> body ]

NoRequest == [url |-> "", method |-> "", headers |-> NoFields, body |-> Undefined]

\* the fetch of #requestAuthorizationToken: the form fields and the Basic header
TokenRequest(token, grant_type, accountId, clientId, clientSecret) ==
  [ url |-> GetTokenUrl(accountId),
    grant_type |-> grant_type,
    tokenKey |-> IF grant_type = "refresh_token" THEN grant_type ELSE "code",
    token |-> token,
    redirect_uri |-> IF grant_type = "authorization_code" THEN nsRedirectUri ELSE Undefined,
    authorization |-> "Basic " \o GetClientAuth(clientId, clientSecret) ]

NoTokenRequest ==
  [ url |-> "", grant_type |-> "", tokenKey |-> "", token |-> Undefined,
    redirect_uri |-> Undefined, authorization |-> "" ]

---------------------------------------------------------------------------
(* Errors the code raises. *)

MaxRetriesError(method, url) == <<"Max retries error in request [", method, "]: ", url>>
RequestError(method, url) == <<"Error in request [", method, "]: ", url>>
AuthenticationError(statusText) == <<statusText>>
AuthorizationFallback == <<"Error in get authorization token">>
AuthorizationError(tokenKey) == <<"Cannot get the NetSuite authorization ", tokenKey>>
AccountIdRequired == <<"The NetSuite Account ID is required!">>
ClientIdRequired == <<"The NetSuite APP ClientID is required!">>
ClientSecretRequired == <<"The NetSuite APP ClientSecret is required!">>

\* TestIOError anchored at both ends: the message must be the marker alone
TestIOErrorWhole(message) == message = <<IOErrorMarker>>

\* /IO error during request payload read/.test(message)
TestIOError(message) == \E i \in 1..Len(message) : message[i] = IOErrorMarker

---------------------------------------------------------------------------
(* Token State *)

\* LogoutState that forgets the refresh token field
LogoutKeepsRefreshToken ==
  [nsState |-> Null, nsCode |-> Null, nsAccessToken |-> Null,
   nsRefreshToken |-> nsRefreshToken]

\* logout(): the four fields it assigns
LogoutState ==
  [nsState |-> Null, nsCode |-> Null, nsAccessToken |-> Null, nsRefreshToken |-> Null]

\* SetAuthorizationTokens with the two fields of the answer swapped
SetAuthorizationTokensSwapped(authorization) ==
  [nsAccessToken |-> authorization.refresh_token,
   nsRefreshToken |-> authorization.access_token]

\* #setAuthorizationTokens(authorization): the two fields it assigns
SetAuthorizationTokens(authorization) ==
  [nsAccessToken |-> authorization.access_token,
   nsRefreshToken |-> authorization.refresh_token]

(* #requestAuthorizationToken from the answer of the token endpoint on:    *)
(* thrown is what the try block throws (NoError when it completes), error  *)
(* is what the catch block throws in its place.                            *)
AuthorizationResult(authorization, grant_type) ==
  LET tokenKey == IF grant_type = "refresh_token" THEN grant_type ELSE "code"
      thrown ==
        IF authorization.net = "rejected" THEN FetchFailed
        ELSE IF authorization.json = "invalid" THEN JsonSyntaxError
        ELSE IF authorization.json = "null" THEN NullPropertyError
        ELSE IF authorization.error = "truthy"
          THEN (IF authorization.message # <<>> THEN authorization.message
                ELSE AuthorizationFallback)
        ELSE NoError
  IN [ ok |-> thrown = NoError,
       thrown |-> thrown,
       error |-> IF thrown = NoError THEN NoError ELSE AuthorizationError(tokenKey) ]

---------------------------------------------------------------------------
(* NormalizeUtils.  A text is a sequence of characters (strings of length  *)
(* one); the regular expressions are computed as String.prototype.replace  *)
(* applies them: with the g flag every match, without it the first only.   *)

\* an entry or argument that is missing where a text is expected (undefined)
NoText == <<"undefined">>

\* \s of a regular expression and what trim() strips, among the characters used
Whitespace == {" ", "\t", "\n", "\r"}

\* ReservedChars without the last alternative of the expression
ReservedCharsButPipe == {"\"", "{", "}", "*", ":", "<", ">", "?", "/", "%", "+"}

\* the characters of /"|\{|\}|\*|:|<|>|\?|\/|\%|\+|\|/
ReservedChars == {"\"", "{", "}", "*", ":", "<", ">", "?", "/", "%", "+", "|"}

\* text.replace(/[chars]/g, by)
RECURSIVE ReplaceEach(_, _, _)
ReplaceEach(text, chars, by) ==
  IF text = <<>> THEN <<>>
  ELSE (IF Head(text) \in chars THEN by ELSE <<Head(text)>>)
         \o ReplaceEach(Tail(text), chars, by)

\* whether word occurs in text at index i
OccursAt(text, i, word) ==
  /\ i + Len(word) - 1 <= Len(text)
  /\ \A k \in 1..Len(word) : text[i + k - 1] = word[k]

\* the first index from i on whose character is not in chars (Len(text) + 1 if none)
RECURSIVE RunEnd(_, _, _)
RunEnd(text, i, chars) ==
  IF i > Len(text) \/ text[i] \notin chars THEN i ELSE RunEnd(text, i + 1, chars)

\* https?:\/\/ at index i: the length of the scheme matched, 0 if none is followed
\* by a character of [^ ~]
SchemeAt(text, i) ==
  LET https == <<"h", "t", "t", "p", "s", ":", "/", "/">>
      http == <<"h", "t", "t", "p", ":", "/", "/">>
      Followed(n) == i + n <= Len(text) /\ text[i + n] \notin {" ", "~"}
  IN IF OccursAt(text, i, https) /\ Followed(8) THEN 8
     ELSE IF OccursAt(text, i, http) /\ Followed(7) THEN 7
     ELSE 0

\* the first index from i on whose character is " " or "~" (Len(text) + 1 if none)
RECURSIVE LinkEnd(_, _)
LinkEnd(text, i) ==
  IF i > Len(text) \/ text[i] \in {" ", "~"} THEN i ELSE LinkEnd(text, i + 1)

RECURSIVE RemoveLinksFrom(_, _)
RemoveLinksFrom(text, i) ==
  IF i > Len(text) THEN <<>>
  ELSE IF SchemeAt(text, i) > 0
    THEN RemoveLinksFrom(text, LinkEnd(text, i + SchemeAt(text, i)))
  ELSE <<text[i]>> \o RemoveLinksFrom(text, i + 1)

\* removeLinks(text): text.replace(/https?:\/\/[^ ~]+/g, '')
RemoveLinks(text) == RemoveLinksFrom(text, 1)

\* the first index of text whose character is in chars (Len(text) + 1 if none)
RECURSIVE FirstOf(_, _, _)
FirstOf(text, i, chars) ==
  IF i > Len(text) \/ text[i] \in chars THEN i ELSE FirstOf(text, i + 1, chars)

\* text.replace(/[chars]+/, by): the first run only
ReplaceFirstRun(text, chars, by) ==
  LET from == FirstOf(text, 1, chars)
      to == RunEnd(text, from, chars)
  IN IF from > Len(text) THEN text
     ELSE SubSeq(text, 1, from - 1) \o by \o SubSeq(text, to, Len(text))

\* text.replace(/^~/, '')
StripTilde(text) ==
  IF text # <<>> /\ Head(text) = "~" THEN Tail(text) ELSE text

\* text.replace(/^\.|\.$/, ''): the leading dot, or else the trailing one
StripDot(text) ==
  IF text # <<>> /\ Head(text) = "." THEN Tail(text)
  ELSE IF text # <<>> /\ text[Len(text)] = "." THEN SubSeq(text, 1, Len(text) - 1)
  ELSE text

\* text.trim()
RECURSIVE TrimEnd(_)
TrimEnd(text) ==
  IF text # <<>> /\ text[Len(text)] \in Whitespace
    THEN TrimEnd(SubSeq(text, 1, Len(text) - 1))
    ELSE text

Trim(text) ==
  LET from == RunEnd(text, 1, Whitespace)
  IN TrimEnd(SubSeq(text, from, Len(text)))

\* the replacements of normalize(text) that have the g flag, in their order
ReplaceGlobals(text) ==
  LET noStar == ReplaceEach(RemoveLinks(text), {"*"}, <<>>)
      noReserved == ReplaceEach(noStar, ReservedChars, <<>>)
      noControl == ReplaceEach(noReserved, {"\r", "\t"}, <<>>)
      dashed == ReplaceEach(noControl, {"\n"}, <<" ", "-", " ">>)
  IN ReplaceEach(dashed, {"&"}, <<"a", "n", "d">>)

\* NormalizeUtils.normalize(text)
Normalize(text) ==
  LET oneDot == ReplaceFirstRun(ReplaceGlobals(text), {"."}, <<".">>)
      noDot == StripDot(StripTilde(oneDot))
  IN Trim(ReplaceFirstRun(noDot, Whitespace, <<" ">>))

---------------------------------------------------------------------------
(* downloadFile: the base64 test, the decoding of Buffer.from(content,     *)
(* 'base64'), the path of the file and the values around the one fetch.    *)

\* [A-Za-z0-9+/] in the order of the base64 values 0..63
Base64Alphabet ==
  <<"A", "B", "C", "D", "E", "F", "G", "H", "I", "J", "K", "L", "M", "N", "O", "P",
     "Q", "R", "S", "T", "U", "V", "W", "X", "Y", "Z", "a", "b", "c", "d", "e", "f",
     "g", "h", "i", "j", "k", "l", "m", "n", "o", "p", "q", "r", "s", "t", "u", "v",
     "w", "x", "y", "z", "0", "1", "2", "3", "4", "5", "6", "7", "8", "9", "+", "/">>

Base64Chars == {Base64Alphabet[i] : i \in 1..Len(Base64Alphabet)}

\* #nsBase64Regex on the last group of four characters
Base64LastGroup(g) ==
  /\ g[1] \in Base64Chars
  /\ g[2] \in Base64Chars
  /\ \/ g[3] = "=" /\ g[4] = "="
     \/ g[3] \in Base64Chars /\ g[4] = "="
     \/ g[3] \in Base64Chars /\ g[4] \in Base64Chars

\* IsFileInBase64 that accepts no padding
IsFileInBase64Unpadded(file) ==
  /\ Len(file) >= 4
  /\ Len(file) % 4 = 0
  /\ \A i \in 1..Len(file) : file[i] \in Base64Chars

\* #isFileInBase64(file): a value that is no string is tested as its text; the
\* text of undefined has nine characters
IsFileInBase64(file) ==
  /\ file # NoText
  /\ Len(file) >= 4
  /\ Len(file) % 4 = 0
  /\ \A i \in 1..(Len(file) - 4) : file[i] \in Base64Chars
  /\ Base64LastGroup(SubSeq(file, Len(file) - 3, Len(file)))

Base64Value(ch) == CHOOSE v \in 0..63 : Base64Alphabet[v + 1] = ch

\* the bytes of one group of four characters
Base64Group(g) ==
  LET v1 == Base64Value(g[1])
      v2 == Base64Value(g[2])
      v3 == IF g[3] = "=" THEN 0 ELSE Base64Value(g[3])
      v4 == IF g[4] = "=" THEN 0 ELSE Base64Value(g[4])
      b1 == v1 * 4 + v2 \div 16
      b2 == (v2 % 16) * 16 + v3 \div 4
      b3 == (v3 % 4) * 64 + v4
  IN IF g[3] = "=" THEN <<b1>>
     ELSE IF g[4] = "=" THEN <<b1, b2>>
     ELSE <<b1, b2, b3>>

\* Buffer.from(content, 'base64') for a content #isFileInBase64 accepts
RECURSIVE Base64Decode(_)
Base64Decode(content) ==
  IF Len(content) < 4 THEN <<>>
  ELSE Base64Group(SubSeq(content, 1, 4)) \o Base64Decode(SubSeq(content, 5, Len(content)))

\* what fs.writeFile is given: the decoded bytes, or the content as it is
ContentFile(content) ==
  IF IsFileInBase64(content)
    THEN [kind |-> "buffer", bytes |-> Base64Decode(content), text |-> <<>>]
  ELSE IF content = NoText
    THEN [kind |-> "undefined", bytes |-> <<>>, text |-> <<>>]
  ELSE [kind |-> "string", bytes |-> <<>>, text |-> content]

\* the directory above an absolute path
RECURSIVE Dirname(_)
Dirname(dir) ==
  IF Len(dir) <= 1 THEN <<"/">>
  ELSE IF dir[Len(dir)] = "/" THEN SubSeq(dir, 1, Len(dir) - 1)
  ELSE Dirname(SubSeq(dir, 1, Len(dir) - 1))

\* path.resolve(folderPath, name) for an absolute folderPath without a final
\* slash and a name without slashes (normalize removes them)
Resolve(folderPath, name) ==
  IF name \in {<<>>, <<".">>} THEN folderPath
  ELSE IF name = <<".", ".">> THEN Dirname(folderPath)
  ELSE folderPath \o <<"/">> \o name

\* a file on disk, or the argument of a write
File(path, data) == [path |-> path, data |-> data]
NoFile == File(<<>>, ContentFile(NoText))

\* the JSON body of the restlet: json as for Body; content and name are texts,
\* or NoText when the entry is missing; info is "object" or "absent"
FileObj(j, content, info, name) ==
  [json |-> j, content |-> content, info |-> info, name |-> name]
NoFileObj == FileObj("none", NoText, "absent", NoText)

\* the answer to the fetch of downloadFile
DownloadResponse(n, ok, statusText, text, fileObj) ==
  [net |-> n, ok |-> ok, statusText |-> statusText, text |-> text, fileObj |-> fileObj]
NoDownloadResponse == DownloadResponse("none", FALSE, "", "", NoFileObj)

ScriptRequired == <<"Script is required!">>
DownloadError(fileId) == <<"Cannot download the file ", fileId>>
DownloadFailed(url, statusText, text) ==
  <<"Cannot download the file: ", url, " - ", statusText, " - ", text>>
UndefinedPropertyError == <<"TypeError: Cannot read properties of undefined">>
WriteFailed == <<"Error: writeFile failed">>

\* #getRestletUrl()
GetRestletUrl(accountId, script, deploy) ==
  "https://" \o accountId \o ".restlets.api.netsuite.com/app/site/hosting/restlet.nl"
    \o "?script=" \o script \o "&deploy=" \o deploy

\* the fetch of downloadFile
DownloadRequest(fileId, accountId, script, deploy, accessToken) ==
  [ url |-> GetRestletUrl(accountId, script, deploy), method |-> "POST",
    headers |-> Spread("Content-Type" :> "application/json", GetAuthHeader(accessToken)),
    body |-> "{\"fileId\":" \o fileId \o "}" ]

\* where downloadFile returns the path held by the field downloadPath
V_DownloadPath == Body("downloadPath", "absent", <<>>)

---------------------------------------------------------------------------
(* One asynchronous operation (a call of signIn or of a request method).   *)
(* pc is the await the operation is suspended at.  method, url, body,      *)
(* headers, retry and response are the parameters and locals of            *)
(* #requestApi.  req and tokenReq are the fetch in flight to the REST API  *)
(* and to the token endpoint.  received and authorization are what the     *)
(* step taken last got back from the REST API and from the token endpoint  *)
(* (the locals response of #renewTokenWithNeeded and authorization of      *)
(* #requestAuthorizationToken), and caught is the error the catch block of *)
(* #requestApi received in that step.  The remaining fields count what the *)
(* logged is what the step taken last wrote with console.debug: the paths  *)
(* given to #debug, in order.                                              *)
(* operation did: inner attempts begun and failed, fetches and refresh     *)
(* exchanges in the whole call and in the current inner attempt, prompts   *)
(* and authorization-code exchanges.                                       *)

Calls == 1..NumCalls

NoOutcome == [kind |-> "none", value |-> V_Undefined, error |-> NoError]

\* the body and headers arguments the caller gave to a request operation
Arguments(body, headers) == [body |-> body, headers |-> headers]
NoArguments == Arguments(Undefined, Undefined)

IdleCall ==
  [ pc |-> "idle", op |-> "none", method |-> "", url |-> "", body |-> Undefined,
    headers |-> Undefined, retry |-> 0, response |-> B_Null,
    req |-> NoRequest, tokenReq |-> NoTokenRequest,
    received |-> NoResponse, authorization |-> NoAuthorization, caught |-> NoError,
    attempts |-> 0, failures |-> 0, requests |-> 0, refreshes |-> 0, aRequests |-> 0, aRefreshes |-> 0,
    prompts |-> 0, exchanges |-> 0, outcome |-> NoOutcome, given |-> NoArguments,
    fileId |-> Undefined, folderPath |-> <<>>, downloaded |-> NoDownloadResponse,
    downloadPath |-> <<>>, writing |-> NoFile, written |-> NoFile,
    logged |-> <<>>, accessing |-> <<>>, fileExist |-> "unknown", reading |-> <<>>,
    reads |-> 0 ]

Settled(cl) == cl.pc \in {"idle", "done"}

\* the awaited fetch has ended and the operation runs again
Resume(cl) ==
  [cl EXCEPT !.req = NoRequest, !.tokenReq = NoTokenRequest, !.received = NoResponse,
             !.authorization = NoAuthorization, !.caught = NoError, !.logged = <<>>]

\* #debug(path, message): written to the console in debug mode only
Debug(cl, debug, path) ==
  IF debug THEN [cl EXCEPT !.logged = Append(@, path)] ELSE cl

\* the operation returns v to its caller; signIn returns nothing after the probe
Return(cl, v) ==
  [cl EXCEPT !.pc = "done",
             !.outcome = [kind |-> "return",
                          value |-> IF cl.op = "signIn" THEN V_Undefined ELSE v,
                          error |-> NoError]]

\* the operation throws e to its caller
Throw(cl, e) ==
  [cl EXCEPT !.pc = "done",
             !.outcome = [kind |-> "throw", value |-> V_Undefined, error |-> e]]

\* #renewTokenWithNeeded calls #internalRequest with the token stored now
IssueRequest(cl, accessToken) ==
  [cl EXCEPT !.req = InternalRequest(GetApiUrl(nsAccountId) \o cl.url, cl.method,
                                     cl.body, cl.headers, accessToken),
             !.requests = @ + 1,
             !.aRequests = @ + 1]

\* the body of the while loop starts: #renewTokenWithNeeded up to its first await
BeginAttempt(cl, accessToken) ==
  [IssueRequest([cl EXCEPT !.attempts = @ + 1, !.aRequests = 0, !.aRefreshes = 0],
                accessToken)
     EXCEPT !.pc = "fetch1"]

\* after the while loop
AfterLoop(cl) ==
  IF cl.retry > MAX_RETRIES
    THEN Throw(cl, MaxRetriesError(cl.method, cl.url))
    ELSE Return(cl, cl.response)

\* LoopHead with the bound off by one: a fourth inner attempt
LoopHeadOneMore(cl, accessToken) ==
  IF cl.retry <= MAX_RETRIES + 1 THEN BeginAttempt(cl, accessToken) ELSE AfterLoop(cl)

\* the test of the while loop
LoopHead(cl, accessToken) ==
  IF cl.retry <= MAX_RETRIES THEN BeginAttempt(cl, accessToken) ELSE AfterLoop(cl)

\* CatchRetry that gives up at once: the error ends the loop
CatchRetryGiveUp(cl, error, accessToken, debug) ==
  LoopHead(Debug([cl EXCEPT !.caught = error, !.retry = MAX_RETRIES + 1,
                            !.failures = @ + 1],
                 debug, "RequestApi"),
           accessToken)

\* CatchRetry whose retry++ runs in debug mode only
CatchRetryWhenDebug(cl, error, accessToken, debug) ==
  LoopHead(Debug([cl EXCEPT !.caught = error, !.retry = IF debug THEN @ + 1 ELSE @,
                            !.failures = @ + 1],
                 debug, "RequestApi"),
           accessToken)

\* the catch block of #requestApi: retry++ as the message of #debug is built,
\* #debug, then the loop again
CatchRetry(cl, error, accessToken, debug) ==
  LoopHead(Debug([cl EXCEPT !.caught = error, !.retry = @ + 1, !.failures = @ + 1],
                 debug, "RequestApi"),
           accessToken)

\* HandleBody whose request error leaves #requestApi instead of being caught
HandleBodyUncaught(cl, body, accessToken, debug) ==
  IF body.json = "invalid"
    THEN CatchRetry(cl, JsonSyntaxError, accessToken, debug)
  ELSE LET parsed == Debug([cl EXCEPT !.response = body], debug, "RequestApi") IN
  IF body.json = "null"
    THEN CatchRetry(parsed, NullPropertyError, accessToken, debug)
  ELSE IF body.error = "truthy"
    THEN IF TestIOError(body.message)
           THEN Return(parsed, B_Null)
           ELSE Throw(parsed, RequestError(cl.method, cl.url))
  ELSE AfterLoop(parsed)

\* #requestApi once #renewTokenWithNeeded has a response that is not a 401:
\* response.json(), then the checks of the try block
HandleBody(cl, body, accessToken, debug) ==
  IF body.json = "invalid"
    THEN CatchRetry(cl, JsonSyntaxError, accessToken, debug)
  ELSE LET parsed == Debug([cl EXCEPT !.response = body], debug, "RequestApi") IN
  IF body.json = "null"
    THEN CatchRetry(parsed, NullPropertyError, accessToken, debug)
  ELSE IF body.error = "truthy"
    THEN IF TestIOError(body.message)
           THEN Return(parsed, B_Null)
           ELSE CatchRetry(parsed, RequestError(cl.method, cl.url), accessToken, debug)
  ELSE AfterLoop(parsed)

\* CheckResponse without the test of the status: a 401 is parsed like any response
CheckResponseAnyStatus(cl, response, accessToken, debug) ==
  IF response.net = "rejected"
    THEN CatchRetry(Debug(cl, debug, "RenewTokenWithNeeded Error"), FetchFailed,
                    accessToken, debug)
    ELSE HandleBody(Debug(cl, debug, "RenewTokenWithNeeded"), response.body,
                    accessToken, debug)

\* #renewTokenWithNeeded after its last fetch: a 401 throws the status text;
\* what its try block throws passes through its catch block, which logs it
CheckResponse(cl, response, accessToken, debug) ==
  IF response.net = "rejected"
    THEN CatchRetry(Debug(cl, debug, "RenewTokenWithNeeded Error"), FetchFailed,
                    accessToken, debug)
  ELSE IF response.status = 401
    THEN CatchRetry(Debug(Debug(cl, debug, "RenewTokenWithNeeded"),
                          debug, "RenewTokenWithNeeded Error"),
                    AuthenticationError(response.statusText), accessToken, debug)
  ELSE HandleBody(Debug(cl, debug, "RenewTokenWithNeeded"), response.body,
                  accessToken, debug)

\* #refreshToken: the exchange is issued with the refresh token stored now
IssueRefresh(cl, refreshToken, debug) ==
  [Debug(cl, debug, "RefreshToken")
     EXCEPT !.pc = "refresh",
             !.tokenReq = TokenRequest(refreshToken, "refresh_token", nsAccountId,
                                       nsClientId, nsClientSecret),
             !.refreshes = @ + 1,
             !.aRefreshes = @ + 1]

\* #requestApi(url, method, body, headers = {}) up to its first await
RequestApi(op, url, method, body, headers, accessToken) ==
  LoopHead([IdleCall EXCEPT !.op = op, !.url = url, !.method = method, !.body = body,
                            !.headers = IF headers = Undefined THEN "hdrNone" ELSE headers,
                            !.retry = 1, !.response = B_Null],
           accessToken)

---------------------------------------------------------------------------
(* The instance before its constructor has run. *)

Init ==
  /\ constructed = "new"
  /\ ctorError = NoError
  /\ nsAccountId = Undefined /\ nsClientId = Undefined /\ nsClientSecret = Undefined
  /\ nsScript = Undefined /\ nsDeploy = Undefined
  /\ isDebug = FALSE /\ shouldLogToken = FALSE
  /\ nsState = Undefined /\ nsCode = Undefined
  /\ nsAccessToken = Undefined /\ nsRefreshToken = Undefined
  /\ call = [c \in Calls |-> IdleCall]
  /\ last = "none"
  /\ args = [accountId |-> Undefined, client |-> Undefined, secret |-> Undefined,
             token |-> Undefined]

\* ConstructorCheck without the test of the client secret
ConstructorCheckNoSecret(accountId, client, secret) ==
  IF Falsy(accountId) THEN AccountIdRequired
  ELSE IF Falsy(client) THEN ClientIdRequired
  ELSE NoError

\* the checks at the top of the constructor: the error thrown, NoError if none
ConstructorCheck(accountId, client, secret) ==
  IF Falsy(accountId) THEN AccountIdRequired
  ELSE IF Falsy(client) THEN ClientIdRequired
  ELSE IF Falsy(secret) THEN ClientSecretRequired
  ELSE NoError

\* the constructor run on its arguments
Construct(accountId, client, secret, token, script, deploy, debug, logToken) ==
  /\ constructed = "new"
  /\ last' = "constructor"
  /\ ctorError' = ConstructorCheck(accountId, client, secret)
  /\ args' = [accountId |-> accountId, client |-> client, secret |-> secret,
               token |-> token]
  /\ IF ctorError' # NoError
       THEN /\ constructed' = "failed"
            /\ UNCHANGED <<nsAccountId, nsClientId, nsClientSecret, nsScript, nsDeploy,
                           isDebug, shouldLogToken, tokenVars, call>>
       ELSE /\ constructed' = "ok"
            /\ nsAccountId' = accountId
            /\ nsClientId' = client
            /\ nsClientSecret' = secret
            /\ nsScript' = script
            /\ nsDeploy' = IF Falsy(deploy) THEN "1" ELSE deploy
            /\ nsState' = LogoutState.nsState
            /\ nsCode' = LogoutState.nsCode
            /\ nsRefreshToken' = LogoutState.nsRefreshToken
            /\ nsAccessToken' = token
            /\ isDebug' = (debug \/ MS_GRAPH_DEBUG = "true")
            /\ shouldLogToken' = (logToken = "true")
            /\ UNCHANGED call

\* new NetSuiteService({ accountId, client, secret, token, script, deploy, debug, logToken })
Constructor ==
  \E accountId \in AccountIdArgs, client \in ClientArgs, secret \in SecretArgs,
     token \in TokenArgs, script \in ScriptArgs, deploy \in DeployArgs,
     debug \in DebugArgs, logToken \in LogTokenArgs :
    Construct(accountId, client, secret, token, script, deploy, debug, logToken)

\* A public operation is invoked when no other is in flight (one caller at a time).
CanStart(c) ==
  /\ constructed = "ok"
  /\ \A d \in Calls : Settled(call[d])
  /\ c = 1

\* logout()
Logout ==
  /\ constructed = "ok"
  /\ \A d \in Calls : Settled(call[d])
  /\ last' = "logout"
  /\ nsState' = LogoutState.nsState
  /\ nsCode' = LogoutState.nsCode
  /\ nsAccessToken' = LogoutState.nsAccessToken
  /\ nsRefreshToken' = LogoutState.nsRefreshToken
  /\ UNCHANGED <<configVars, call>>

---------------------------------------------------------------------------
(* The request operations. *)

\* requestGet(url, headers): the headers argument lands in the body parameter
RequestGet(c) ==
  \E url \in Paths, headers \in HeaderArgs :
    /\ CanStart(c)
    /\ last' = "requestGet"
    /\ call' = [call EXCEPT ![c] =
                  [RequestApi("requestGet", url, "GET", headers, Undefined, nsAccessToken)
                     EXCEPT !.given = Arguments(Undefined, headers)]]
    /\ UNCHANGED <<configVars, tokenVars>>

\* requestPost(url, body, headers)
RequestPost(c) ==
  \E url \in Paths, body \in BodyArgs, headers \in HeaderArgs :
    /\ CanStart(c)
    /\ last' = "requestPost"
    /\ call' = [call EXCEPT ![c] =
                  [RequestApi("requestPost", url, "POST", body, headers, nsAccessToken)
                     EXCEPT !.given = Arguments(body, headers)]]
    /\ UNCHANGED <<configVars, tokenVars>>

\* requestPut(url, body, headers, debug)
RequestPut(c) ==
  \E url \in Paths, body \in BodyArgs, headers \in HeaderArgs :
    /\ CanStart(c)
    /\ last' = "requestPut"
    /\ call' = [call EXCEPT ![c] =
                  [RequestApi("requestPut", url, "PUT", body, headers, nsAccessToken)
                     EXCEPT !.given = Arguments(body, headers)]]
    /\ UNCHANGED <<configVars, tokenVars>>

\* requestDelete(url, body, headers)
RequestDelete(c) ==
  \E url \in Paths, body \in BodyArgs, headers \in HeaderArgs :
    /\ CanStart(c)
    /\ last' = "requestDelete"
    /\ call' = [call EXCEPT ![c] =
                  [RequestApi("requestDelete", url, "DELETE", body, headers, nsAccessToken)
                     EXCEPT !.given = Arguments(body, headers)]]
    /\ UNCHANGED <<configVars, tokenVars>>

\* executeSuiteQl(query): requestPost with the JSON text of { q: query }
ExecuteSuiteQl(c) ==
  \E query \in Queries :
    /\ CanStart(c)
    /\ last' = "executeSuiteQl"
    /\ call' = [call EXCEPT ![c] =
                  RequestApi("executeSuiteQl", "/query/v1/suiteql", "POST",
                             "{\"q\":\"" \o query \o "\"}", "hdrPrefer", nsAccessToken)]
    /\ UNCHANGED <<configVars, tokenVars>>

\* #renewTokenWithNeeded from the answer to its first fetch on, up to the next
\* await or the end of the call
Fetch1Step(cl, response, accessToken, refreshToken, debug) ==
  LET resumed == [Resume(cl) EXCEPT !.received = response] IN
  IF response.net = "response" /\ response.status = 401
    THEN IssueRefresh(resumed, refreshToken, debug)
    ELSE CheckResponse(resumed, response, accessToken, debug)

\* the first fetch of an inner attempt ends
Fetch1Done(c) ==
  \E response \in ApiOutcomes :
    /\ call[c].pc = "fetch1"
    /\ call' = [call EXCEPT ![c] =
                  Fetch1Step(call[c], response, nsAccessToken, nsRefreshToken, isDebug)]
    /\ UNCHANGED <<configVars, tokenVars, last>>

\* what #requestAuthorizationToken writes with #debug: the response, the
\* parsed answer, the error caught
AuthorizationLogged(cl, authorization, debug) ==
  LET answered == IF authorization.net = "rejected" THEN cl
                  ELSE Debug(cl, debug, "RequestAuthorizationToken")
      parsed == IF authorization.net = "rejected" \/ authorization.json = "invalid"
                  THEN answered
                  ELSE Debug(answered, debug, "RequestAuthorizationToken")
  IN IF AuthorizationResult(authorization, "refresh_token").ok
       THEN parsed
       ELSE Debug(parsed, debug, "RequestAuthorizationToken")

\* RefreshStep that issues the request again whether or not the exchange failed
RefreshStepReplaysAnyway(cl, authorization, accessToken, debug) ==
  LET resumed == AuthorizationLogged([Resume(cl) EXCEPT !.authorization = authorization],
                                     authorization, debug)
  IN [IssueRequest(resumed, accessToken) EXCEPT !.pc = "fetch2"]

\* #renewTokenWithNeeded from the end of the refresh exchange on; accessToken is
\* the access token stored once #requestAuthorizationToken has ended
RefreshStep(cl, authorization, accessToken, debug) ==
  LET result == AuthorizationResult(authorization, "refresh_token")
      resumed == AuthorizationLogged([Resume(cl) EXCEPT !.authorization = authorization],
                                     authorization, debug)
  IN IF result.ok
       THEN [IssueRequest(resumed, accessToken) EXCEPT !.pc = "fetch2"]
       ELSE CatchRetry(Debug(resumed, debug, "RenewTokenWithNeeded Error"),
                       result.error, accessToken, debug)

\* RefreshDone that stores the fields of the answer before it looks at the answer
RefreshDoneStoresAnyAnswer(c) ==
  \E authorization \in TokenOutcomes :
    /\ call[c].pc = "refresh"
    /\ nsAccessToken' = SetAuthorizationTokens(authorization).nsAccessToken
    /\ nsRefreshToken' = SetAuthorizationTokens(authorization).nsRefreshToken
    /\ call' = [call EXCEPT ![c] =
                  RefreshStep(call[c], authorization, nsAccessToken', isDebug)]
    /\ UNCHANGED <<configVars, nsState, nsCode, last>>

\* the token exchange of #refreshToken ends
RefreshDone(c) ==
  \E authorization \in TokenOutcomes :
    LET result == AuthorizationResult(authorization, "refresh_token")
    IN
    /\ call[c].pc = "refresh"
    /\ IF result.ok
         THEN /\ nsAccessToken' = SetAuthorizationTokens(authorization).nsAccessToken
              /\ nsRefreshToken' = SetAuthorizationTokens(authorization).nsRefreshToken
         ELSE UNCHANGED <<nsAccessToken, nsRefreshToken>>
    /\ call' = [call EXCEPT ![c] =
                  RefreshStep(call[c], authorization, nsAccessToken', isDebug)]
    /\ UNCHANGED <<configVars, nsState, nsCode, last>>

\* #renewTokenWithNeeded from the answer to its second fetch on
Fetch2Step(cl, response, accessToken, debug) ==
  CheckResponse([Resume(cl) EXCEPT !.received = response], response, accessToken, debug)

\* the fetch replayed after the refresh ends
Fetch2Done(c) ==
  \E response \in ApiOutcomes :
    /\ call[c].pc = "fetch2"
    /\ call' = [call EXCEPT ![c] = Fetch2Step(call[c], response, nsAccessToken, isDebug)]
    /\ UNCHANGED <<configVars, tokenVars, last>>

---------------------------------------------------------------------------
(* signIn() *)

\* TokenInformed testing the token given to the constructor
TokenInformedAtConstruction(accessToken, refreshToken) == ~Falsy(args.token)

\* TokenInformed testing the refresh token instead of the access token
TokenInformedByRefreshToken(accessToken, refreshToken) == ~Falsy(refreshToken)

\* if (this.#nsAccessToken) of signIn()
TokenInformed(accessToken, refreshToken) == ~Falsy(accessToken)

\* signIn() up to its first await: the probe, or the authorization URL and the prompt
SignIn(c) ==
  /\ CanStart(c)
  /\ last' = "signIn"
  /\ IF TokenInformed(nsAccessToken, nsRefreshToken)
       THEN /\ call' = [call EXCEPT ![c] =
                          RequestApi("signIn", "/record/v1/account", "GET", Undefined,
                                     Undefined, nsAccessToken)]
            /\ UNCHANGED <<configVars, tokenVars>>
       ELSE \E uuid \in Nonces :
            /\ nsState' = uuid
            /\ call' = [call EXCEPT ![c] =
                          [IdleCall EXCEPT !.op = "signIn", !.pc = "prompt",
                                           !.prompts = 1]]
            /\ UNCHANGED <<configVars, nsCode, nsAccessToken, nsRefreshToken>>

\* the operator answers the prompt; the authorization-code exchange is issued
PromptAnswered(c) ==
  \E code \in Codes :
    /\ call[c].pc = "prompt"
    /\ nsCode' = code
    /\ call' = [call EXCEPT ![c] =
                  [@ EXCEPT !.pc = "exchange",
                            !.tokenReq = TokenRequest(nsCode', "authorization_code",
                                                      nsAccountId, nsClientId,
                                                      nsClientSecret),
                            !.exchanges = @ + 1]]
    /\ UNCHANGED <<configVars, nsState, nsAccessToken, nsRefreshToken, last>>

\* the authorization-code exchange ends
ExchangeDone(c) ==
  \E authorization \in TokenOutcomes :
    LET result == AuthorizationResult(authorization, "authorization_code")
        cl == AuthorizationLogged([Resume(call[c]) EXCEPT !.authorization = authorization],
                                  authorization, isDebug)
    IN
    /\ call[c].pc = "exchange"
    /\ IF result.ok
         THEN /\ nsAccessToken' = SetAuthorizationTokens(authorization).nsAccessToken
              /\ nsRefreshToken' = SetAuthorizationTokens(authorization).nsRefreshToken
              /\ call' = [call EXCEPT ![c] = Return(cl, V_Undefined)]
         ELSE /\ UNCHANGED <<nsAccessToken, nsRefreshToken>>
              /\ call' = [call EXCEPT ![c] = Throw(cl, result.error)]
    /\ UNCHANGED <<configVars, nsState, nsCode, last>>

---------------------------------------------------------------------------
(* downloadFile(fileId, folderPath) *)

\* file names the restlet can answer: every text over TextAlphabet up to
\* MaxTextLen characters, and some longer ones
TextAlphabet == {".", "~", " ", "\n", "&", "(", "*", "a"}
Texts == UNION {[1..n -> TextAlphabet] : n \in 0..MaxTextLen}
T_Report == <<"r", "e", "p", "o", "r", "t", ".", "p", "d", "f">>
T_DotBoth == <<".", "a", ".">>
T_Link == <<"G", "o", "o", "g", "l", "e", " ", "h", "t", "t", "p", ":", "/", "/", "g", "o", "o", "g", "l", "e", ".", "c", "o", "m", ".", "b", "r", " ", "W", "e", "b", "S", "i", "t", "e">>
T_TwoLinks == <<"a", " ", "h", "t", "t", "p", ":", "/", "/", "x", " ", "b", " ", "h", "t", "t", "p", "s", ":", "/", "/", "y", " ", "c">>
T_LinkParen == <<"s", "e", "e", " ", "h", "t", "t", "p", ":", "/", "/", "x", "/", "(", "1", ")", "#", "2", " ", "(", "#", ")">>
T_Newline == <<"a", "\n", "b", "&", "c", "\n">>
T_Reserved == <<"a", "\"", "{", "}", "*", ":", "<", ">", "?", "/", "%", "+", "|", "b">>
T_Dots == <<"t", "e", ".", ".", ".", "s", "t", ".", ".", "x">>
SampleTexts == {T_Report, T_DotBoth, T_Link, T_TwoLinks, T_LinkParen, T_Newline, T_Reserved, T_Dots}

\* file contents the restlet can answer
F_Test == <<"d", "G", "V", "z", "d", "A", "=", "=">>
F_Ab == <<"Y", "W", "I", "=">>
F_Abc == <<"Y", "W", "J", "j">>
F_Plain == <<"t", "e", "s", "t">>
F_Raw == <<"h", "i", "!">>
F_BadPad == <<"d", "G", "V", "z", "d", "A", "=">>
F_Empty == <<>>
Contents == {F_Test, F_Ab, F_Abc, F_Plain, F_Raw, F_BadPad, F_Empty}

\* what the fetch of downloadFile can end with: no response, a response that is
\* not ok, a body that is no JSON, and bodies with and without the entries read
DownloadOutcomes ==
  { DownloadResponse("rejected", FALSE, "", "", NoFileObj),
    DownloadResponse("response", FALSE, "Unauthorized", "denied", NoFileObj),
    DownloadResponse("response", FALSE, "Internal Server Error", "oops", NoFileObj),
    DownloadResponse("response", TRUE, "OK", "", FileObj("invalid", NoText, "absent", NoText)),
    DownloadResponse("response", TRUE, "OK", "", FileObj("null", NoText, "absent", NoText)),
    DownloadResponse("response", TRUE, "OK", "", FileObj("object", F_Test, "absent", NoText)),
    DownloadResponse("response", TRUE, "OK", "", FileObj("object", F_Test, "object", NoText)),
    DownloadResponse("response", TRUE, "OK", "", FileObj("object", NoText, "object", T_Report)) }
    \cup { DownloadResponse("response", TRUE, "OK", "", FileObj("object", F_Test, "object", name)) :
             name \in Texts \cup SampleTexts }
    \cup { DownloadResponse("response", TRUE, "OK", "", FileObj("object", content, "object", T_Report)) :
             content \in Contents }

\* DownloadFile without the check of the script
DownloadFileUnchecked(c) ==
  \E fileId \in FileIds, folderPath \in FolderArgs :
    /\ CanStart(c)
    /\ last' = "downloadFile"
    /\ call' = [call EXCEPT ![c] =
                  [IdleCall EXCEPT !.op = "downloadFile", !.fileId = fileId,
                                   !.folderPath = folderPath, !.pc = "download",
                                   !.req = DownloadRequest(fileId, nsAccountId, nsScript,
                                                           nsDeploy, nsAccessToken),
                                   !.requests = @ + 1]]
    /\ UNCHANGED <<configVars, tokenVars>>

\* downloadFile up to its first await: the check of the script, then the fetch
DownloadFile(c) ==
  \E fileId \in FileIds, folderPath \in FolderArgs :
    LET cl == [IdleCall EXCEPT !.op = "downloadFile", !.fileId = fileId,
                               !.folderPath = folderPath]
    IN
    /\ CanStart(c)
    /\ last' = "downloadFile"
    /\ call' = [call EXCEPT ![c] =
                  IF Falsy(nsScript)
                    THEN Throw(cl, ScriptRequired)
                    ELSE [cl EXCEPT !.pc = "download",
                                    !.req = DownloadRequest(fileId, nsAccountId, nsScript,
                                                            nsDeploy, nsAccessToken),
                                    !.requests = @ + 1]]
    /\ UNCHANGED <<configVars, tokenVars>>

\* DownloadThrown without the test of response.ok
DownloadThrownAnyStatus(cl, response) ==
  IF response.net = "rejected" THEN FetchFailed
  ELSE IF response.fileObj.json = "invalid" THEN JsonSyntaxError
  ELSE IF response.fileObj.json = "null" THEN NullPropertyError
  ELSE IF response.ok /\ response.fileObj.info = "absent" THEN UndefinedPropertyError
  ELSE IF response.ok /\ response.fileObj.name = NoText THEN UndefinedPropertyError
  ELSE NoError

\* downloadFile from the end of its fetch to fs.writeFile: the error the try
\* block throws on the way (NoError if none)
DownloadThrown(cl, response) ==
  IF response.net = "rejected" THEN FetchFailed
  ELSE IF ~response.ok
    THEN DownloadFailed(cl.req.url, response.statusText, response.text)
  ELSE IF response.fileObj.json = "invalid" THEN JsonSyntaxError
  ELSE IF response.fileObj.json = "null" THEN NullPropertyError
  ELSE IF response.fileObj.info = "absent" THEN UndefinedPropertyError
  ELSE IF response.fileObj.name = NoText THEN UndefinedPropertyError
  ELSE NoError

\* path.resolve(folderPath, NormalizeUtils.normalize(fileObj.info.name))
DownloadPath(folderPath, fileObj) == Resolve(folderPath, Normalize(fileObj.name))

\* DownloadFetched that issues the fetch again after a response that is not ok
DownloadFetchedAgain(c) ==
  \E response \in DownloadOutcomes :
    LET cl == [Resume(call[c]) EXCEPT !.downloaded = response]
        thrown == DownloadThrown(call[c], response)
        downloadPath == DownloadPath(cl.folderPath, response.fileObj)
    IN
    /\ call[c].pc = "download"
    /\ call' = [call EXCEPT ![c] =
                  IF response.net = "response" /\ ~response.ok /\ cl.requests < MAX_RETRIES
                    THEN [cl EXCEPT !.req = call[c].req, !.requests = @ + 1]
                  ELSE IF thrown # NoError
                    THEN Throw(Debug([cl EXCEPT !.caught = thrown], isDebug, "downloadFile"),
                               DownloadError(cl.fileId))
                    ELSE [cl EXCEPT !.pc = "write",
                                    !.downloadPath = downloadPath,
                                    !.writing = File(downloadPath,
                                                     ContentFile(response.fileObj.content))]]
    /\ UNCHANGED <<configVars, tokenVars, last>>

\* the fetch of downloadFile ends
DownloadFetched(c) ==
  \E response \in DownloadOutcomes :
    LET cl == [Resume(call[c]) EXCEPT !.downloaded = response]
        thrown == DownloadThrown(call[c], response)
        downloadPath == DownloadPath(cl.folderPath, response.fileObj)
    IN
    /\ call[c].pc = "download"
    /\ call' = [call EXCEPT ![c] =
                  IF thrown # NoError
                    THEN Throw(Debug([cl EXCEPT !.caught = thrown], isDebug, "downloadFile"),
                               DownloadError(cl.fileId))
                    ELSE [cl EXCEPT !.pc = "write",
                                    !.downloadPath = downloadPath,
                                    !.writing = File(downloadPath,
                                                     ContentFile(response.fileObj.content))]]
    /\ UNCHANGED <<configVars, tokenVars, last>>

\* fs.writeFile can succeed: there are data, and the path is below the folder
CanWrite(cl) ==
  /\ cl.writing.data.kind # "undefined"
  /\ Len(cl.writing.path) > Len(cl.folderPath)

\* fs.writeFile ends
DownloadWritten(c) ==
  \E ok \in BOOLEAN :
    LET cl == [Resume(call[c]) EXCEPT !.writing = NoFile] IN
    /\ call[c].pc = "write"
    /\ ok => CanWrite(call[c])
    /\ call' = [call EXCEPT ![c] =
                  IF ok
                    THEN Return([cl EXCEPT !.written = call[c].writing], V_DownloadPath)
                    ELSE Throw(Debug([cl EXCEPT !.caught = WriteFailed], isDebug,
                                     "downloadFile"),
                               DownloadError(cl.fileId))]
    /\ UNCHANGED <<configVars, tokenVars, last>>

---------------------------------------------------------------------------

Next ==
  \/ Constructor
  \/ Logout
  \/ \E c \in Calls : RequestGet(c)
  \/ \E c \in Calls : RequestPost(c)
  \/ \E c \in Calls : RequestPut(c)
  \/ \E c \in Calls : RequestDelete(c)
  \/ \E c \in Calls : ExecuteSuiteQl(c)
  \/ \E c \in Calls : SignIn(c)
  \/ \E c \in Calls : Fetch1Done(c)
  \/ \E c \in Calls : RefreshDone(c)
  \/ \E c \in Calls : Fetch2Done(c)
  \/ \E c \in Calls : PromptAnswered(c)
  \/ \E c \in Calls : ExchangeDone(c)

Spec == Init /\ [][Next]_vars

---------------------------------------------------------------------------
(* An instance that signs in and downloads files. *)

\* new NetSuiteService({ accountId, client, secret, token, script }) with or
\* without a script
ConstructorAnyScript ==
  \E token \in TokenArgs, script \in ScriptArgs \cup {Undefined} :
    Construct("6132245", "client", "secret", token, script, Undefined, FALSE, Undefined)

NextDownload ==
  \/ ConstructorAnyScript
  \/ Logout
  \/ \E c \in Calls : SignIn(c)
  \/ \E c \in Calls : Fetch1Done(c)
  \/ \E c \in Calls : RefreshDone(c)
  \/ \E c \in Calls : Fetch2Done(c)
  \/ \E c \in Calls : PromptAnswered(c)
  \/ \E c \in Calls : ExchangeDone(c)
  \/ \E c \in Calls : DownloadFile(c)
  \/ \E c \in Calls : DownloadFetched(c)
  \/ \E c \in Calls : DownloadWritten(c)

DownloadSpec == Init /\ [][NextDownload]_vars

---------------------------------------------------------------------------
(* The service with uploadFile (src/services/netSuite.service.js): the     *)
(* same token handling and the same #requestApi, no script and no deploy,  *)
(* uploadFile in the place of downloadFile.  accessing is the path whose   *)
(* existence uploadFile awaits, fileExist what #fileExists answered in the *)
(* step taken last, reading the path given to fs.readFile, reads how many  *)
(* files the call began to read.                                           *)

\* the directories and file names given to uploadFile
AttachmentDirs == {<<"/", "d">>}
UploadFiles == {<<"m">>, <<"s", "/", "m">>}

ReadFailed == <<"Error: ENOENT">>
UrlFileNotDefined == <<"ReferenceError: urlFile is not defined">>

\* new NetSuiteService({ accountId, client, secret, token, debug }); the fields
\* nsScript and nsDeploy, which this class does not have, stay without a script
ServiceConstructor ==
  \E token \in TokenArgs, debug \in DebugArgs :
    Construct("6132245", "client", "secret", token, Undefined, Undefined, debug, Undefined)

\* uploadFile(attachmentDir, folderName, file) up to its first await: #fileExists
UploadFile(c) ==
  \E attachmentDir \in AttachmentDirs, file \in UploadFiles :
    /\ CanStart(c)
    /\ last' = "uploadFile"
    /\ call' = [call EXCEPT ![c] =
                  [IdleCall EXCEPT !.op = "uploadFile", !.pc = "access",
                                   !.accessing = attachmentDir \o <<"/">> \o file]]
    /\ UNCHANGED <<configVars, tokenVars>>

\* UploadAccessed without the test of fileExist: the file is read in any case
UploadAccessedAnyway(c) ==
  \E fileExist \in BOOLEAN :
    LET cl == Debug([Resume(call[c]) EXCEPT !.accessing = <<>>,
                       !.fileExist = IF fileExist THEN "yes" ELSE "no"],
                    isDebug, "uploadFile")
    IN
    /\ call[c].pc = "access"
    /\ call' = [call EXCEPT ![c] =
                  [cl EXCEPT !.pc = "read", !.reading = call[c].accessing,
                             !.reads = @ + 1]]
    /\ UNCHANGED <<configVars, tokenVars, last>>

\* #fileExists has answered: null for a file that does not exist, or fs.readFile
UploadAccessed(c) ==
  \E fileExist \in BOOLEAN :
    LET cl == Debug([Resume(call[c]) EXCEPT !.accessing = <<>>,
                       !.fileExist = IF fileExist THEN "yes" ELSE "no"],
                    isDebug, "uploadFile")
    IN
    /\ call[c].pc = "access"
    /\ call' = [call EXCEPT ![c] =
                  IF ~fileExist
                    THEN Return(Debug(cl, isDebug, "uploadFile"), B_Null)
                    ELSE [cl EXCEPT !.pc = "read", !.reading = call[c].accessing,
                                    !.reads = @ + 1]]
    /\ UNCHANGED <<configVars, tokenVars, last>>

\* fs.readFile ends.  With the bytes, urlFile, which nothing declares, is read
\* as the argument of requestPut; without them the error reaches the catch
\* block.  The catch block reads urlFile as it builds the message of #debug:
\* in both cases the call ends with that ReferenceError, before any request.
UploadRead(c) ==
  \E ok \in BOOLEAN :
    LET cl == [Resume(call[c]) EXCEPT !.reading = <<>>, !.fileExist = "unknown",
                 !.caught = IF ok THEN UrlFileNotDefined ELSE ReadFailed]
    IN
    /\ call[c].pc = "read"
    /\ call' = [call EXCEPT ![c] = Throw(cl, UrlFileNotDefined)]
    /\ UNCHANGED <<configVars, tokenVars, last>>

NextUpload ==
  \/ ServiceConstructor
  \/ Logout
  \/ \E c \in Calls : RequestPut(c)
  \/ \E c \in Calls : Fetch1Done(c)
  \/ \E c \in Calls : RefreshDone(c)
  \/ \E c \in Calls : Fetch2Done(c)
  \/ \E c \in Calls : UploadFile(c)
  \/ \E c \in Calls : UploadAccessed(c)
  \/ \E c \in Calls : UploadRead(c)

UploadSpec == Init /\ [][NextUpload]_vars

---------------------------------------------------------------------------
(* Two overlapping calls on one instance.  The caller starts a second      *)
(* request while the first awaits a fetch; each step below is what one     *)
(* call runs between two awaits.  #requestAuthorizationToken stores the    *)
(* tokens and returns; #renewTokenWithNeeded, which awaits it through      *)
(* #refreshToken, goes on in a later job, and the other call can run in    *)
(* between: the end of a refresh is two steps here.                        *)

\* the token pairs the token endpoint hands out to overlapping refreshes
OverlapTokenOutcomes ==
  { TokenBody("rejected", "invalid", "absent", <<>>, Undefined, Undefined) }
    \cup { TokenBody("response", "object", "absent", <<>>,
                     "A" \o ToString(i), "R" \o ToString(i)) : i \in 1..(NumTokens + 1) }

\* what the REST API answers to overlapping calls
OverlapApiOutcomes ==
  { Rejected, Response(200, "OK", B_Ok), Response(401, "Unauthorized", B_Invalid) }

\* new NetSuiteService({ accountId, client, secret, token })
ConstructorWithToken ==
  Construct("6132245", "client", "secret", "T0", Undefined, Undefined, FALSE, Undefined)

\* the caller invokes requestGet while the call before it is still in flight
CanOverlap(c) ==
  /\ constructed = "ok"
  /\ c = 2
  /\ ~Settled(call[1])
  /\ call[c].pc = "idle"

\* requestGet(url, headers), no call in flight
FirstRequestGet(c) ==
  /\ c = 1
  /\ constructed = "ok"
  /\ \A d \in Calls : call[d].pc = "idle"
  /\ last' = "requestGet"
  /\ call' = [call EXCEPT ![c] =
                [RequestApi("requestGet", "/record/v1/invoice", "GET", Undefined, Undefined,
                            nsAccessToken)
                   EXCEPT !.given = Arguments(Undefined, Undefined)]]
  /\ UNCHANGED <<configVars, tokenVars>>

\* requestGet(url, headers) while another call is in flight
OverlappingRequestGet(c) ==
  /\ CanOverlap(c)
  /\ last' = "requestGet"
  /\ call' = [call EXCEPT ![c] =
                [RequestApi("requestGet", "/record/v1/invoice", "GET", Undefined, Undefined,
                            nsAccessToken)
                   EXCEPT !.given = Arguments(Undefined, Undefined)]]
  /\ UNCHANGED <<configVars, tokenVars>>

\* the first fetch of an inner attempt ends
OverlapFetch1Done(c) ==
  \E response \in OverlapApiOutcomes :
    /\ call[c].pc = "fetch1"
    /\ call' = [call EXCEPT ![c] =
                  Fetch1Step(call[c], response, nsAccessToken, nsRefreshToken, isDebug)]
    /\ UNCHANGED <<configVars, tokenVars, last>>

\* RefreshStored that keeps the refresh token of an exchange that ended before
RefreshStoredFirstWins(c) ==
  \E authorization \in OverlapTokenOutcomes :
    /\ call[c].pc = "refresh"
    /\ IF AuthorizationResult(authorization, "refresh_token").ok
         THEN /\ nsAccessToken' = SetAuthorizationTokens(authorization).nsAccessToken
              /\ nsRefreshToken' = IF nsRefreshToken \in {Null, Undefined}
                                     THEN SetAuthorizationTokens(authorization).nsRefreshToken
                                     ELSE nsRefreshToken
         ELSE UNCHANGED <<nsAccessToken, nsRefreshToken>>
    /\ call' = [call EXCEPT ![c] =
                  [Resume(call[c]) EXCEPT !.pc = "refreshed", !.authorization = authorization]]
    /\ UNCHANGED <<configVars, nsState, nsCode, last>>

\* the token exchange of #refreshToken ends: #requestAuthorizationToken stores
\* the tokens of a successful answer and returns, or throws
RefreshStored(c) ==
  \E authorization \in OverlapTokenOutcomes :
    /\ call[c].pc = "refresh"
    /\ IF AuthorizationResult(authorization, "refresh_token").ok
         THEN /\ nsAccessToken' = SetAuthorizationTokens(authorization).nsAccessToken
              /\ nsRefreshToken' = SetAuthorizationTokens(authorization).nsRefreshToken
         ELSE UNCHANGED <<nsAccessToken, nsRefreshToken>>
    /\ call' = [call EXCEPT ![c] =
                  [Resume(call[c]) EXCEPT !.pc = "refreshed", !.authorization = authorization]]
    /\ UNCHANGED <<configVars, nsState, nsCode, last>>

\* #renewTokenWithNeeded goes on after await this.#refreshToken(): the request
\* again with the token stored now, or the error of the exchange
RefreshReturned(c) ==
  /\ call[c].pc = "refreshed"
  /\ call' = [call EXCEPT ![c] =
                RefreshStep(call[c], call[c].authorization, nsAccessToken, isDebug)]
  /\ UNCHANGED <<configVars, tokenVars, last>>

\* the fetch replayed after the refresh ends
OverlapFetch2Done(c) ==
  \E response \in OverlapApiOutcomes :
    /\ call[c].pc = "fetch2"
    /\ call' = [call EXCEPT ![c] = Fetch2Step(call[c], response, nsAccessToken, isDebug)]
    /\ UNCHANGED <<configVars, tokenVars, last>>

NextConcurrent ==
  \/ ConstructorWithToken
  \/ \E c \in Calls : FirstRequestGet(c)
  \/ \E c \in Calls : OverlappingRequestGet(c)
  \/ \E c \in Calls : OverlapFetch1Done(c)
  \/ \E c \in Calls : RefreshStored(c)
  \/ \E c \in Calls : RefreshReturned(c)
  \/ \E c \in Calls : OverlapFetch2Done(c)

ConcurrentSpec == Init /\ [][NextConcurrent]_vars

---------------------------------------------------------------------------
(* An endpoint that answers 401 to every request, and a token endpoint     *)
(* that renews for a refresh token it has handed out and for nothing else: *)
(* the instance that signed in through the prompt has every refresh        *)
(* succeed, the instance constructed with a token, which stores no refresh *)
(* token, has every refresh fail.                                          *)

\* the answers of the endpoint
UnauthorizedOutcomes == {Response(401, t, B_Invalid) : t \in {"Unauthorized", ""}}

\* the answers of the token endpoint to a refresh exchange carrying token
RenewalOutcomes(token) ==
  IF token \in RefreshTokens
    THEN {a \in TokenOutcomes : a.refresh_token \in RefreshTokens}
    ELSE {a \in TokenOutcomes : a.access_token = Undefined}

\* the first fetch of an inner attempt ends with a 401
UnauthorizedFetch1Done(c) ==
  \E response \in UnauthorizedOutcomes :
    /\ call[c].pc = "fetch1"
    /\ call' = [call EXCEPT ![c] =
                  Fetch1Step(call[c], response, nsAccessToken, nsRefreshToken, isDebug)]
    /\ UNCHANGED <<configVars, tokenVars, last>>

\* the token exchange of #refreshToken ends
RenewalDone(c) ==
  \E authorization \in RenewalOutcomes(call[c].tokenReq.token) :
    /\ call[c].pc = "refresh"
    /\ IF AuthorizationResult(authorization, "refresh_token").ok
         THEN /\ nsAccessToken' = SetAuthorizationTokens(authorization).nsAccessToken
              /\ nsRefreshToken' = SetAuthorizationTokens(authorization).nsRefreshToken
         ELSE UNCHANGED <<nsAccessToken, nsRefreshToken>>
    /\ call' = [call EXCEPT ![c] =
                  RefreshStep(call[c], authorization, nsAccessToken', isDebug)]
    /\ UNCHANGED <<configVars, nsState, nsCode, last>>

\* the fetch replayed after the refresh ends with a 401
UnauthorizedFetch2Done(c) ==
  \E response \in UnauthorizedOutcomes :
    /\ call[c].pc = "fetch2"
    /\ call' = [call EXCEPT ![c] = Fetch2Step(call[c], response, nsAccessToken, isDebug)]
    /\ UNCHANGED <<configVars, tokenVars, last>>

NextUnauthorized ==
  \/ ConstructorAnyScript
  \/ Logout
  \/ \E c \in Calls : SignIn(c)
  \/ \E c \in Calls : PromptAnswered(c)
  \/ \E c \in Calls : ExchangeDone(c)
  \/ \E c \in Calls : RequestGet(c)
  \/ \E c \in Calls : RequestPost(c)
  \/ \E c \in Calls : UnauthorizedFetch1Done(c)
  \/ \E c \in Calls : RenewalDone(c)
  \/ \E c \in Calls : UnauthorizedFetch2Done(c)

UnauthorizedSpec == Init /\ [][NextUnauthorized]_vars

---------------------------------------------------------------------------
(* Properties *)

\* the four fields of Token State
TokenState ==
  [nsState |-> nsState, nsCode |-> nsCode, nsAccessToken |-> nsAccessToken,
   nsRefreshToken |-> nsRefreshToken]

\* cl went through #requestApi (a request operation, or the probe of signIn)
ThroughExecutor(cl) == cl.attempts > 0

\* the step taken last parsed a body that #requestApi takes for a success
ParsedSuccess(cl) ==
  /\ cl.received.net = "response"
  /\ cl.received.status # 401
  /\ cl.received.body.json = "object"
  /\ cl.received.body.error # "truthy"

\* C1: a logical call makes at most MAX_RETRIES (3) inner attempts; an inner
\* attempt that parses a body without an exception and without an error ends
\* the call at once and the call returns that body, on whichever attempt it
\* happens; the call throws the max-retries error, naming its method and url,
\* exactly when 3 inner attempts have failed.
C1_BoundedRetry ==
  \A c \in Calls :
    LET cl == call[c] IN
    ThroughExecutor(cl) =>
      /\ cl.attempts <= 3
      /\ cl.failures <= cl.attempts
      /\ ParsedSuccess(cl) =>
           /\ cl.pc = "done"
           /\ cl.outcome.kind = "return"
           /\ cl.op # "signIn" => cl.outcome.value = cl.received.body
           /\ cl.failures = cl.attempts - 1
      /\ cl.pc = "done" =>
           /\ (cl.outcome.kind = "throw") <=> (cl.failures = 3 /\ cl.attempts = 3)
           /\ cl.outcome.kind = "throw" =>
                cl.outcome.error = MaxRetriesError(cl.method, cl.url)
      /\ cl.pc # "done" => cl.failures < 3 /\ cl.outcome.kind = "none"

\* a call whose first two inner attempts failed returns the body of the third
C1_Witness ==
  \E c \in Calls :
    /\ call[c].op = "requestPost"
    /\ call[c].pc = "done"
    /\ call[c].attempts = 3
    /\ call[c].failures = 2
    /\ call[c].outcome.kind = "return"
    /\ call[c].outcome.value = B_Ok

\* C2 as stated: the 1st, 2nd and 3rd failures are each followed by another
\* inner attempt, and the max-retries error comes with the 4th failure.
C2_AsStated ==
  \A c \in Calls :
    LET cl == call[c] IN
    ThroughExecutor(cl) =>
      /\ (cl.caught # NoError /\ cl.failures \in 1..3) =>
           (cl.pc = "fetch1" /\ cl.attempts = cl.failures + 1)
      /\ (cl.pc = "done" /\ cl.outcome.kind = "throw") => cl.failures = 4

\* C2, amended: the 1st and 2nd failures are each swallowed and followed by
\* another inner attempt; the 3rd failure is followed by none, and the
\* max-retries error is surfaced with it.
C2_RetryThenGiveUp ==
  \A c \in Calls :
    LET cl == call[c] IN
    ThroughExecutor(cl) =>
      /\ (cl.caught # NoError /\ cl.failures \in 1..2) =>
           /\ cl.pc = "fetch1"
           /\ cl.attempts = cl.failures + 1
           /\ cl.outcome.kind = "none"
      /\ (cl.caught # NoError /\ cl.failures = 3) =>
           /\ cl.pc = "done"
           /\ cl.attempts = 3
           /\ cl.outcome.kind = "throw"
           /\ cl.outcome.error = MaxRetriesError(cl.method, cl.url)
      /\ (cl.pc = "done" /\ cl.outcome.kind = "throw") =>
           (cl.failures = 3 /\ cl.caught # NoError)

\* the third inner attempt of a call has just failed
C2_Witness ==
  \E c \in Calls :
    /\ call[c].op = "requestGet"
    /\ call[c].failures = 3
    /\ call[c].caught = FetchFailed
    /\ call[c].pc = "done"
    /\ call[c].outcome.error = MaxRetriesError("GET", "/record/v1/invoice")

\* the step taken last got a 401 from the REST API
Got401(cl) == cl.received.net = "response" /\ cl.received.status = 401

\* the step taken last got a token pair from the token endpoint
GotTokens(cl) ==
  /\ cl.authorization.net = "response"
  /\ cl.authorization.json = "object"
  /\ cl.authorization.error # "truthy"

\* the step of call c after its first fetch: a 401 issues one refresh exchange
\* with the stored refresh token, anything else issues no exchange and is not
\* followed by a second fetch in the same inner attempt
C3_AfterFirstFetch(c) ==
  LET cl == call[c]
      nx == call'[c]
  IN
  (cl.pc = "fetch1" /\ nx # cl) =>
    IF Got401(nx)
      THEN /\ nx.pc = "refresh"
           /\ nx.attempts = cl.attempts
           /\ nx.refreshes = cl.refreshes + 1
           /\ nx.aRefreshes = 1
           /\ nx.requests = cl.requests
           /\ nx.tokenReq.grant_type = "refresh_token"
           /\ nx.tokenReq.token = nsRefreshToken
      ELSE /\ nx.refreshes = cl.refreshes
           /\ nx.tokenReq = NoTokenRequest
           /\ nx.pc \in {"fetch1", "done"}
           /\ nx.attempts = cl.attempts => (nx.pc = "done" /\ nx.requests = cl.requests)

\* the step of call c after its second fetch: no third fetch and no second
\* refresh in the same inner attempt; a 401 fails the attempt with the status text
C3_AfterSecondFetch(c) ==
  LET cl == call[c]
      nx == call'[c]
  IN
  (cl.pc = "fetch2" /\ nx # cl) =>
    /\ nx.refreshes = cl.refreshes
    /\ nx.tokenReq = NoTokenRequest
    /\ nx.pc \in {"fetch1", "done"}
    /\ nx.attempts = cl.attempts => (nx.pc = "done" /\ nx.requests = cl.requests)
    /\ Got401(nx) =>
         /\ nx.caught = AuthenticationError(nx.received.statusText)
         /\ nx.failures = cl.failures + 1

\* the counts of one inner attempt
C3_AttemptCounts ==
  \A c \in Calls :
    /\ call[c].aRequests <= 2
    /\ call[c].aRefreshes <= 1
    /\ call[c].aRequests = 2 => call[c].aRefreshes = 1

\* C3 as stated: within one inner attempt a first response with status 401 is
\* followed by exactly one refresh exchange and the request is issued exactly
\* one more time; a first response that is not 401 is followed by no exchange
\* and no second request; a second 401 fails the attempt with the status text,
\* without a third request or a second refresh.
C3_AsStated ==
  [][\A c \in Calls :
       /\ C3_AfterFirstFetch(c)
       /\ (call[c].pc = "refresh" /\ call'[c] # call[c]) =>
            /\ call'[c].pc = "fetch2"
            /\ call'[c].attempts = call[c].attempts
            /\ call'[c].requests = call[c].requests + 1
       /\ C3_AfterSecondFetch(c)]_vars

\* C3, amended: as stated, except that the request is issued one more time
\* only if the refresh exchange succeeds; if the exchange fails, the inner
\* attempt fails with the error of the exchange and the request is not reissued
\* in that inner attempt.
C3_RefreshOnce ==
  /\ []C3_AttemptCounts
  /\ [][\A c \in Calls :
          /\ C3_AfterFirstFetch(c)
          /\ (call[c].pc = "refresh" /\ call'[c] # call[c]) =>
               IF GotTokens(call'[c])
                 THEN /\ call'[c].pc = "fetch2"
                      /\ call'[c].attempts = call[c].attempts
                      /\ call'[c].requests = call[c].requests + 1
                      /\ call'[c].aRequests = 2
                      /\ call'[c].refreshes = call[c].refreshes
                 ELSE /\ call'[c].caught = AuthorizationError("refresh_token")
                      /\ call'[c].failures = call[c].failures + 1
                      /\ call'[c].refreshes = call[c].refreshes
                      /\ call'[c].pc \in {"fetch1", "done"}
                      /\ call'[c].attempts = call[c].attempts =>
                           call'[c].requests = call[c].requests
          /\ C3_AfterSecondFetch(c)]_vars

\* the replayed request of an inner attempt was answered 401 again
C3_Witness ==
  \E c \in Calls :
    /\ Got401(call[c])
    /\ call[c].caught = AuthenticationError("Unauthorized")
    /\ call[c].refreshes = 1
    /\ call[c].requests = 3
    /\ call[c].attempts = 2

\* the step taken last parsed a body with a truthy error whose message has no marker
ParsedError(cl) ==
  /\ cl.received.net = "response"
  /\ cl.received.status # 401
  /\ cl.received.body.json = "object"
  /\ cl.received.body.error = "truthy"
  /\ ~ \E i \in 1..Len(cl.received.body.message) :
         cl.received.body.message[i] = IOErrorMarker

\* the step taken last parsed a body with a truthy error whose message has the marker
ParsedIOError(cl) ==
  /\ cl.received.net = "response"
  /\ cl.received.status # 401
  /\ cl.received.body.json = "object"
  /\ cl.received.body.error = "truthy"
  /\ \E i \in 1..Len(cl.received.body.message) :
       cl.received.body.message[i] = IOErrorMarker

\* C4 as stated: a parsed body with an error whose message lacks the marker
\* makes the call fail with the request error naming method and url.
C4_AsStated ==
  \A c \in Calls :
    ParsedError(call[c]) =>
      /\ call[c].pc = "done"
      /\ call[c].outcome.kind = "throw"
      /\ call[c].outcome.error = RequestError(call[c].method, call[c].url)

\* C4, amended: a parsed body with a truthy error whose message lacks the
\* marker makes the inner attempt fail with the request error naming method
\* and url; the retry loop catches it, so the call goes on with its next inner
\* attempt, or throws the max-retries error if that was the 3rd attempt; the
\* request error itself never reaches the caller.
C4_RequestErrorCaught ==
  \A c \in Calls :
    LET cl == call[c] IN
    /\ ParsedError(cl) =>
         /\ cl.caught = RequestError(cl.method, cl.url)
         /\ cl.response = cl.received.body
         /\ IF cl.failures < 3
              THEN cl.pc = "fetch1" /\ cl.attempts = cl.failures + 1
              ELSE /\ cl.pc = "done"
                   /\ cl.outcome.kind = "throw"
                   /\ cl.outcome.error = MaxRetriesError(cl.method, cl.url)
    /\ cl.outcome.error # RequestError(cl.method, cl.url)

\* the first inner attempt parsed an error body and the second is under way
C4_Witness ==
  \E c \in Calls :
    /\ call[c].received.body = B_ErrOther
    /\ call[c].caught = RequestError("POST", "/query/v1/suiteql")
    /\ call[c].pc = "fetch1"
    /\ call[c].attempts = 2

\* C5: an inner attempt that parses a body whose error message contains the
\* marker ends the call at once with a null result: nothing is thrown or
\* caught, no inner attempt and no fetch follows, whatever failed before.
C5_SoftFailEmpty ==
  \A c \in Calls :
    LET cl == call[c] IN
    ParsedIOError(cl) =>
      /\ cl.pc = "done"
      /\ cl.outcome.kind = "return"
      /\ cl.op # "signIn" => cl.outcome.value = B_Null
      /\ cl.outcome.error = NoError
      /\ cl.caught = NoError
      /\ cl.req = NoRequest
      /\ cl.tokenReq = NoTokenRequest

\* the third inner attempt, after two failed ones, parsed the marker inside a longer message
C5_Witness ==
  \E c \in Calls :
    /\ call[c].received.body = B_ErrMarkerInText
    /\ call[c].attempts = 3
    /\ call[c].failures = 2
    /\ call[c].pc = "done"
    /\ call[c].outcome.kind = "return"
    /\ call[c].outcome.value = B_Null

\* C6: from any reachable Token State, logout() leaves the four fields of the
\* Token State empty, starts no fetch (no call record changes) and leaves the
\* configuration alone; a logout() after a logout() changes nothing.
C6_LogoutClears ==
  [][last' = "logout" =>
       /\ TokenState' = LogoutState
       /\ \A f \in DOMAIN TokenState' : Falsy(TokenState'[f])
       /\ call' = call
       /\ UNCHANGED configVars
       /\ last = "logout" => TokenState' = TokenState]_vars

\* logout() after an interactive signIn() that had stored a token pair
C6_Witness ==
  /\ last = "logout"
  /\ TokenState = LogoutState
  /\ nsAccountId # Undefined
  /\ \E c \in Calls :
       /\ call[c].op = "signIn"
       /\ call[c].exchanges = 1
       /\ call[c].outcome.kind = "return"
       /\ call[c].authorization.refresh_token \in RefreshTokens

SignInStarts(c) ==
  /\ Settled(call[c])
  /\ ~Settled(call'[c])
  /\ call'[c].op = "signIn"

\* C8 as stated: when a token was given to the constructor, signIn() never
\* prompts the operator and never issues an authorization-code exchange.
C8_AsStated ==
  \A c \in Calls :
    (call[c].op = "signIn" /\ ~Falsy(args.token)) =>
      /\ call[c].prompts = 0
      /\ call[c].exchanges = 0

\* C8, amended: when a non-empty access token is stored at the time signIn()
\* is invoked, signIn() never prompts the operator and never issues an
\* authorization-code exchange; it makes one call of the executor, GET
\* /record/v1/account, and if that call fails signIn() fails with the
\* executor's error (the max-retries error) instead of completing normally.
C8_ProbeOnly ==
  /\ [][\A c \in Calls :
          (SignInStarts(c) /\ ~Falsy(nsAccessToken)) =>
            /\ call'[c].pc = "fetch1"
            /\ call'[c].attempts = 1
            /\ call'[c].prompts = 0
            /\ call'[c].exchanges = 0
            /\ call'[c].tokenReq = NoTokenRequest
            /\ call'[c].req.method = "GET"
            /\ call'[c].req.url = GetApiUrl(nsAccountId) \o "/record/v1/account"
            /\ UNCHANGED tokenVars]_vars
  /\ [](\A c \in Calls :
          (call[c].op = "signIn" /\ ThroughExecutor(call[c])) =>
            /\ call[c].prompts = 0
            /\ call[c].exchanges = 0
            /\ call[c].method = "GET"
            /\ call[c].url = "/record/v1/account"
            /\ call[c].pc \in {"fetch1", "refresh", "fetch2", "done"}
            /\ call[c].pc = "done" =>
                 IF call[c].failures = MAX_RETRIES
                   THEN /\ call[c].outcome.kind = "throw"
                        /\ call[c].outcome.error =
                             MaxRetriesError("GET", "/record/v1/account")
                   ELSE call[c].outcome.kind = "return")

\* signIn() of a service constructed with a token failed with the error of the probe
C8_Witness ==
  \E c \in Calls :
    /\ args.token = "T0"
    /\ last = "signIn"
    /\ call[c].op = "signIn"
    /\ call[c].pc = "done"
    /\ call[c].prompts = 0
    /\ call[c].outcome.kind = "throw"
    /\ call[c].outcome.error = MaxRetriesError("GET", "/record/v1/account")

\* cl is a signIn() that took the interactive branch
Interactive(cl) == cl.op = "signIn" /\ cl.prompts > 0

\* C9: with no stored access token signIn() stores a nonce as pendingState,
\* prompts once, stores the answer as pendingCode and issues one
\* authorization_code exchange carrying that code, without retry; when the
\* exchange answers a token pair, the Token State holds that pair afterwards,
\* and a following requestGet(path) issues a GET to <api-root><path> with the
\* header Authorization: Bearer <access token of the pair>.
C9_InteractiveSignIn ==
  /\ [][\A c \in Calls :
          /\ (SignInStarts(c) /\ Falsy(nsAccessToken)) =>
               /\ call'[c].pc = "prompt"
               /\ call'[c].prompts = 1
               /\ call'[c].exchanges = 0
               /\ call'[c].tokenReq = NoTokenRequest
               /\ call'[c].req = NoRequest
               /\ nsState' \in Nonces
               /\ UNCHANGED <<nsCode, nsAccessToken, nsRefreshToken>>
          /\ (call[c].pc = "exchange" /\ call'[c] # call[c]) =>
               /\ call'[c].pc = "done"
               /\ IF GotTokens(call'[c])
                    THEN call'[c].outcome.kind = "return"
                    ELSE /\ call'[c].outcome.kind = "throw"
                         /\ UNCHANGED tokenVars
          /\ ( /\ Interactive(call[c]) /\ last = "signIn"
               /\ call[c].outcome.kind = "return"
               /\ last' = "requestGet" ) =>
               /\ call'[c].pc = "fetch1"
               /\ call'[c].req.method = "GET"
               /\ call'[c].req.url = GetApiUrl(nsAccountId) \o call'[c].url
               /\ call'[c].url \in Paths
               /\ call'[c].req.headers.Authorization =
                    "Bearer " \o call[c].authorization.access_token]_vars
  /\ [](\A c \in Calls :
          Interactive(call[c]) =>
            /\ call[c].prompts = 1
            /\ call[c].exchanges <= 1
            /\ call[c].attempts = 0
            /\ call[c].requests = 0
            /\ call[c].refreshes = 0
            /\ call[c].pc \in {"prompt", "exchange", "done"}
            /\ call[c].pc = "prompt" =>
                 /\ nsState \in Nonces
                 /\ call[c].exchanges = 0
                 /\ call[c].tokenReq = NoTokenRequest
            /\ call[c].pc = "exchange" =>
                 /\ nsState \in Nonces
                 /\ nsCode \in Codes
                 /\ call[c].exchanges = 1
                 /\ call[c].tokenReq.grant_type = "authorization_code"
                 /\ call[c].tokenReq.token = nsCode
                 /\ call[c].tokenReq.url = GetTokenUrl(nsAccountId)
            /\ (call[c].pc = "done" /\ last = "signIn") =>
                 /\ call[c].exchanges = 1
                 /\ call[c].tokenReq = NoTokenRequest
                 /\ GotTokens(call[c]) =>
                      /\ nsAccessToken = call[c].authorization.access_token
                      /\ nsRefreshToken = call[c].authorization.refresh_token
                      /\ nsState \in Nonces
                      /\ nsCode \in Codes)

\* the first fetch of a requestGet() that follows an interactive signIn()
C9_Witness ==
  \E c \in Calls :
    /\ last = "requestGet"
    /\ call[c].pc = "fetch1"
    /\ call[c].attempts = 1
    /\ call[c].req.headers.Authorization = "Bearer A1"
    /\ nsAccessToken = "A1"
    /\ nsRefreshToken = "R1"
    /\ nsCode = "code1"
    /\ nsState = "uuid1"

\* the step taken last got a body with a truthy error from the token endpoint
GotTokenError(cl) ==
  /\ cl.authorization.net = "response"
  /\ cl.authorization.json = "object"
  /\ cl.authorization.error = "truthy"

\* C10 as stated: when the token endpoint answers an exchange of either grant
\* kind with a body that has an error field, the exchange fails with an error
\* that carries the remote error message, or the fallback message when the
\* remote error has no message.
C10_AsStated ==
  \A c \in Calls :
    LET cl == call[c]
        message == IF cl.authorization.message # <<>>
                     THEN cl.authorization.message
                     ELSE AuthorizationFallback
    IN
    GotTokenError(cl) =>
      IF Interactive(cl)
        THEN cl.outcome.kind = "throw" /\ cl.outcome.error = message
        ELSE cl.caught = message

\* the HTTP method each request operation fixes
MethodOf(op) ==
  CASE op = "requestGet" -> "GET"
    [] op = "requestPost" -> "POST"
    [] op = "requestPut" -> "PUT"
    [] op = "requestDelete" -> "DELETE"
    [] OTHER -> ""

\* C11 as stated: every fetch of requestGet, requestPost, requestPut and
\* requestDelete has the method of the operation, the entries of the caller's
\* headers argument among its headers, next to an Authorization header, and
\* the caller's body argument as its body; a fetch of requestGet(url, headers)
\* has no body.
C11_AsStated ==
  \A c \in Calls :
    LET cl == call[c] IN
    (MethodOf(cl.op) # "" /\ cl.req # NoRequest) =>
      /\ cl.req.method = MethodOf(cl.op)
      /\ "Authorization" \in DOMAIN cl.req.headers
      /\ \A k \in DOMAIN HeaderFields(cl.given.headers) :
           /\ k \in DOMAIN cl.req.headers
           /\ cl.req.headers[k] = HeaderFields(cl.given.headers)[k]
      /\ cl.req.body = cl.given.body
      /\ cl.op = "requestGet" => cl.req.body = Undefined

\* C12: downloadFile on an instance without a script fails with the
\* configuration error at once: no fetch is issued and no file is written,
\* whatever the file id and the folder.
C12_ScriptRequired ==
  \A c \in Calls :
    LET cl == call[c] IN
    (cl.op = "downloadFile" /\ Falsy(nsScript)) =>
      /\ cl.pc = "done"
      /\ cl.outcome.kind = "throw"
      /\ cl.outcome.error = ScriptRequired
      /\ cl.requests = 0
      /\ cl.req = NoRequest
      /\ cl.downloaded = NoDownloadResponse
      /\ cl.writing = NoFile
      /\ cl.written = NoFile

\* downloadFile failed on a signed-in instance that has no script
C12_Witness ==
  \E c \in Calls :
    /\ call[c].op = "downloadFile"
    /\ call[c].fileId \in FileIds
    /\ call[c].folderPath \in FolderArgs
    /\ nsScript = Undefined
    /\ nsAccessToken \in AccessTokens
    /\ call[c].outcome.error = ScriptRequired

\* C13: once the check of the script has passed, downloadFile issues one
\* fetch, a POST to the restlet URL with the body {fileId} and the bearer token
\* stored when it is issued; the fetch is never repeated, no token exchange is
\* issued whatever the response (a 401 included), and no step of downloadFile
\* changes a field of the Token State, whether it succeeds or fails.
C13_OneFetchNoRefresh ==
  /\ [](\A c \in Calls :
          LET cl == call[c] IN
          (cl.op = "downloadFile" /\ ~Falsy(nsScript)) =>
            /\ cl.requests = 1
            /\ cl.attempts = 0
            /\ cl.refreshes = 0
            /\ cl.exchanges = 0
            /\ cl.tokenReq = NoTokenRequest
            /\ cl.pc \in {"download", "write", "done"}
            /\ IF cl.pc = "download"
                 THEN /\ cl.req.method = "POST"
                      /\ cl.req.url = GetRestletUrl(nsAccountId, nsScript, nsDeploy)
                      /\ cl.req.body = "{\"fileId\":" \o cl.fileId \o "}"
                      /\ cl.req.headers["Authorization"] = "Bearer " \o nsAccessToken
                 ELSE cl.req = NoRequest)
  /\ [][last' = "downloadFile" => UNCHANGED tokenVars]_vars

\* downloadFile failed on a 401 while a refresh token was stored
C13_Witness ==
  \E c \in Calls :
    /\ call[c].op = "downloadFile"
    /\ call[c].pc = "done"
    /\ call[c].downloaded.statusText = "Unauthorized"
    /\ call[c].requests = 1
    /\ call[c].refreshes = 0
    /\ nsAccessToken \in AccessTokens
    /\ nsRefreshToken \in RefreshTokens

\* the fetch of the download call failed, or its answer lacks what is read
DownloadAnswerBad(cl) ==
  \/ cl.downloaded.net = "rejected"
  \/ ~cl.downloaded.ok
  \/ cl.downloaded.fileObj.json # "object"
  \/ cl.downloaded.fileObj.content = NoText
  \/ cl.downloaded.fileObj.info = "absent"
  \/ cl.downloaded.fileObj.name = NoText

\* C14: once the check of the script has passed, a downloadFile in which
\* anything fails (the fetch is rejected, the response is not ok, the body is
\* no JSON or lacks content or info.name, the write fails) throws the download
\* error naming the file id, and nothing else; a response that is not ok ends
\* the call without a write.
C14_DownloadError ==
  \A c \in Calls :
    LET cl == call[c] IN
    (cl.op = "downloadFile" /\ ~Falsy(nsScript)) =>
      /\ (cl.pc = "done" /\ (DownloadAnswerBad(cl) \/ cl.caught # NoError)) =>
           /\ cl.outcome.kind = "throw"
           /\ cl.written = NoFile
      /\ cl.outcome.kind = "throw" =>
           /\ cl.outcome.error = DownloadError(cl.fileId)
           /\ cl.caught # NoError
      /\ cl.outcome.kind = "return" =>
           /\ ~DownloadAnswerBad(cl)
           /\ cl.caught = NoError
      /\ (cl.downloaded.net = "response" /\ ~cl.downloaded.ok) =>
           /\ cl.pc = "done"
           /\ cl.caught = DownloadFailed(GetRestletUrl(nsAccountId, nsScript, nsDeploy),
                                         cl.downloaded.statusText, cl.downloaded.text)
           /\ cl.writing = NoFile
           /\ cl.written = NoFile
           /\ cl.downloadPath = <<>>

\* the write of a well-formed download failed
C14_Witness ==
  \E c \in Calls :
    /\ call[c].op = "downloadFile"
    /\ ~DownloadAnswerBad(call[c])
    /\ call[c].caught = WriteFailed
    /\ call[c].outcome.error = DownloadError("524171")

\* content is groups of four base64 characters, the last group ending in pad
\* padding characters
Base64Shaped(content, pad) ==
  /\ Len(content) >= 4
  /\ Len(content) % 4 = 0
  /\ \A i \in 1..Len(content) :
       IF i > Len(content) - pad THEN content[i] = "=" ELSE content[i] \in Base64Chars

\* C15: a downloadFile that returns has written one file, at
\* resolve(folderPath, normalize(info.name)), and returns that path; a content
\* made of groups of four base64 characters, the last group ending in 0, 1 or
\* 2 padding characters, is written as its decoded bytes (3 per group, less
\* the padding), and any other content is written as the text it is.
C15_WrittenFile ==
  \A c \in Calls :
    LET cl == call[c]
        content == cl.downloaded.fileObj.content
        data == cl.written.data
    IN
    (cl.op = "downloadFile" /\ cl.outcome.kind = "return") =>
      /\ cl.written.path = Resolve(cl.folderPath, Normalize(cl.downloaded.fileObj.name))
      /\ cl.downloadPath = cl.written.path
      /\ cl.outcome.value = V_DownloadPath
      /\ SubSeq(cl.written.path, 1, Len(cl.folderPath) + 1) = cl.folderPath \o <<"/">>
      /\ IF \E pad \in 0..2 : Base64Shaped(content, pad)
           THEN /\ data.kind = "buffer"
                /\ \A pad \in 0..2 :
                     Base64Shaped(content, pad) =>
                       Len(data.bytes) = 3 * (Len(content) \div 4) - pad
                /\ \A i \in 1..Len(data.bytes) : data.bytes[i] \in 0..255
                /\ content = F_Test => data.bytes = <<116, 101, 115, 116>>
                /\ content = F_Ab => data.bytes = <<97, 98>>
                /\ content = F_Abc => data.bytes = <<97, 98, 99>>
                /\ content = F_Plain => data.bytes = <<181, 235, 45>>
           ELSE /\ data.kind = "string"
                /\ data.text = content

\* a download whose content ends in one padding character was written as two bytes
C15_Witness ==
  \E c \in Calls :
    /\ call[c].op = "downloadFile"
    /\ call[c].outcome.kind = "return"
    /\ call[c].downloaded.fileObj.content = F_Ab
    /\ call[c].written.data.bytes = <<97, 98>>
    /\ call[c].written.path = <<"/", "d", "/", "r", "e", "p", "o", "r", "t", ".", "p", "d", "f">>

\* the file names answered to the download calls, the texts normalize was given
NormalizedTexts ==
  {call[c].downloaded.fileObj.name : c \in Calls} \ {NoText}

\* C16 as stated: normalize(normalize(x)) = normalize(x) for every text x.
C16_AsStated ==
  \A x \in NormalizedTexts : Normalize(Normalize(x)) = Normalize(x)

\* how often ch occurs in text
Count(text, ch) == Cardinality({i \in 1..Len(text) : text[i] = ch})

\* how often word occurs in text
CountWord(text, word) ==
  Cardinality({i \in 1..Len(text) : OccursAt(text, i, word)})

\* what one character becomes: nothing for a reserved character, a tab or a
\* carriage return, "and" for "&", " - " for a newline, itself otherwise
Substitute(ch) ==
  IF ch \in {"\"", "{", "}", "*", ":", "<", ">", "?", "/", "%", "+", "|", "\t", "\r"}
    THEN <<>>
  ELSE IF ch = "&" THEN <<"a", "n", "d">>
  ELSE IF ch = "\n" THEN <<" ", "-", " ">>
  ELSE <<ch>>

RECURSIVE SubstituteAll(_)
SubstituteAll(text) ==
  IF text = <<>> THEN <<>> ELSE Substitute(Head(text)) \o SubstituteAll(Tail(text))

\* text without its whitespace, dots and tildes
IsSolid(ch) == ch \notin {" ", "\t", "\n", "\r", ".", "~"}
Solid(text) == SelectSeq(text, IsSolid)

\* C17 as stated: for every text, the output of normalize has none of the
\* reserved characters, has "and" for every "&" and " - " for every newline of
\* the text, and keeps every "(", ")" and "#".
C17_AsStated ==
  \A x \in NormalizedTexts :
    LET out == Normalize(x) IN
    /\ \A i \in 1..Len(out) : out[i] \notin {"\"", "{", "}", "*", ":", "<", ">", "?", "/", "%", "+", "|"}
    /\ CountWord(out, <<"a", "n", "d">>) >= Count(x, "&")
    /\ CountWord(out, <<" ", "-", " ">>) >= Count(x, "\n")
    /\ \A ch \in {"(", ")", "#"} : Count(out, ch) = Count(x, ch)

\* C17, amended: for every text, the output of normalize has none of the
\* reserved characters, no "&" and no newline; apart from whitespace, dots and
\* tildes it is the text without its links in which every reserved character is
\* dropped, every "&" has become "and", every newline "-", and every other
\* character, such as "(", ")" and "#", is kept; the "-" of a newline has a
\* space on each side, except at the two ends of the output, which are trimmed.
C17_Substituted ==
  \A x \in NormalizedTexts :
    LET out == Normalize(x)
        y == RemoveLinks(x)
    IN
    /\ \A i \in 1..Len(out) :
         out[i] \notin {"\"", "{", "}", "*", ":", "<", ">", "?", "/", "%", "+", "|", "&", "\n"}
    /\ Solid(out) = Solid(SubstituteAll(y))
    /\ CountWord(out, <<"a", "n", "d">>) >= Count(y, "&")
    /\ \A ch \in {"(", ")", "#"} : Count(out, ch) = Count(y, ch)
    /\ Count(y, "-") = 0 =>
         /\ Count(out, "-") = Count(y, "\n")
         /\ \A i \in 1..Len(out) :
              out[i] = "-" =>
                /\ i = 1 \/ out[i - 1] = " "
                /\ i = Len(out) \/ out[i + 1] = " "
    /\ out = <<>> \/ (out[1] \notin Whitespace /\ out[Len(out)] \notin Whitespace)

\* a name with two newlines and an "&" was normalized for the path of a download
C17_Witness ==
  \E c \in Calls :
    /\ call[c].downloaded.fileObj.name = T_Newline
    /\ call[c].downloadPath =
         call[c].folderPath \o <<"/", "a", " ", "-", " ", "b", "a", "n", "d", "c", " ", "-">>

\* text has no link left: no scheme followed by a character of [^ ~]
NoLink(text) == \A i \in 1..Len(text) : SchemeAt(text, i) = 0

\* every run of whitespace of text is one space
SingleSpaced(text) ==
  \A i \in 1..Len(text) :
    text[i] \in Whitespace =>
      /\ text[i] = " "
      /\ i = Len(text) \/ text[i + 1] \notin Whitespace

\* C18 as stated: for every text, the output of normalize has no link left and
\* no whitespace at its ends, and where the text had single spaces around its
\* links, the words of the output are separated by single spaces.
C18_AsStated ==
  \A x \in NormalizedTexts :
    LET out == Normalize(x) IN
    /\ NoLink(out)
    /\ out = <<>> \/ (out[1] \notin Whitespace /\ out[Len(out)] \notin Whitespace)
    /\ (SingleSpaced(x) /\ ~NoLink(x)) => SingleSpaced(out)

\* a call record without what was written to the console
Quiet(cl) == [cl EXCEPT !.logged = <<>>]

\* C20: debug mode has no effect on control flow.  From every state of a call
\* that waits for a fetch or for the refresh exchange, and for every answer,
\* the step taken with debug on and the step taken with debug off differ in
\* the console output only: same next request or exchange, same counters of
\* attempts, same result or error (the tokens stored after an exchange do not
\* depend on debug at all); and in every call through #requestApi the attempt
\* counter is one more than the number of failed inner attempts, whether or
\* not debug is on.
C20_DebugHasNoEffect ==
  \A c \in Calls :
    /\ call[c].pc = "fetch1" =>
         \A response \in ApiOutcomes :
           Quiet(Fetch1Step(call[c], response, nsAccessToken, nsRefreshToken, TRUE))
             = Quiet(Fetch1Step(call[c], response, nsAccessToken, nsRefreshToken, FALSE))
    /\ call[c].pc = "refresh" =>
         \A authorization \in TokenOutcomes :
           \A accessToken \in {nsAccessToken, SetAuthorizationTokens(authorization).nsAccessToken} :
             Quiet(RefreshStep(call[c], authorization, accessToken, TRUE))
               = Quiet(RefreshStep(call[c], authorization, accessToken, FALSE))
    /\ call[c].pc = "fetch2" =>
         \A response \in ApiOutcomes :
           Quiet(Fetch2Step(call[c], response, nsAccessToken, TRUE))
             = Quiet(Fetch2Step(call[c], response, nsAccessToken, FALSE))
    /\ ThroughExecutor(call[c]) => call[c].retry = call[c].failures + 1
    /\ call[c].logged # <<>> => isDebug

\* with debug off, three inner attempts failed, the counter reached four and
\* nothing was written to the console
C20_Witness ==
  \E c \in Calls :
    /\ ~isDebug
    /\ call[c].pc = "done"
    /\ call[c].failures = MAX_RETRIES
    /\ call[c].retry = MAX_RETRIES + 1
    /\ call[c].outcome.error = MaxRetriesError(call[c].method, call[c].url)
    /\ call[c].logged = <<>>

\* C19: uploadFile for a local file that does not exist returns null: no error,
\* no file read, no HTTP request and no token exchange in the call, and no step
\* of an uploadFile call changes Token State.
C19_MissingFileSkipped ==
  /\ [](\A c \in Calls :
          (call[c].op = "uploadFile" /\ call[c].fileExist = "no") =>
            /\ call[c].pc = "done"
            /\ call[c].outcome = [kind |-> "return", value |-> B_Null, error |-> NoError]
            /\ call[c].reads = 0 /\ call[c].reading = <<>>
            /\ call[c].requests = 0 /\ call[c].req = NoRequest
            /\ call[c].refreshes = 0 /\ call[c].exchanges = 0
            /\ call[c].tokenReq = NoTokenRequest)
  /\ [][\A c \in Calls :
          (call'[c].op = "uploadFile" /\ call'[c] # call[c]) => TokenState' = TokenState]_vars

\* an instance with tokens stored ended an uploadFile for a file that does not exist
C19_Witness ==
  \E c \in Calls :
    /\ call[c].op = "uploadFile"
    /\ call[c].fileExist = "no"
    /\ call[c].pc = "done"
    /\ nsAccessToken \in AccessTokens
    /\ nsRefreshToken \in RefreshTokens

\* C21: no lock around the refresh.  Whatever the other call is doing, a call
\* that gets a 401 issues its own refresh exchange with the refresh token
\* stored at that moment; every successful exchange overwrites the stored pair
\* with its own answer, so the exchange that ends last determines the pair; and
\* the request replayed after a refresh carries the access token stored at the
\* moment of the replay, whichever call's refresh wrote it.
C21_NoLock ==
  [][\A c \in Calls :
       /\ (call[c].pc = "fetch1" /\ call'[c].pc = "refresh") =>
            /\ call'[c].tokenReq.grant_type = "refresh_token"
            /\ call'[c].tokenReq.token = nsRefreshToken
            /\ call'[c].refreshes = call[c].refreshes + 1
       /\ (call[c].pc = "refresh" /\ call'[c].pc = "refreshed" /\ GotTokens(call'[c])) =>
            /\ nsAccessToken' = call'[c].authorization.access_token
            /\ nsRefreshToken' = call'[c].authorization.refresh_token
       /\ (call[c].pc = "refreshed" /\ call'[c].pc = "fetch2") =>
            /\ call'[c].req.headers["Authorization"] = "Bearer " \o nsAccessToken
            /\ UNCHANGED tokenVars]_vars

\* two calls each made a refresh exchange; the first call's exchange answered
\* A1, the second call's exchange ended after it and stored A2 and R2, and the
\* first call replayed its request with A2
C21_Witness ==
  /\ call[1].pc = "fetch2"
  /\ call[1].refreshes = 1
  /\ call[1].authorization.access_token = "A1"
  /\ call[1].req.headers["Authorization"] = "Bearer A2"
  /\ call[2].refreshes = 1
  /\ call[2].authorization.access_token = "A2"
  /\ nsAccessToken = "A2"
  /\ nsRefreshToken = "R2"

\* C22 as stated: within an inner attempt, after a 401 and a refresh exchange
\* that answered an access token, the replayed request carries
\* Authorization: Bearer <that access token>.
C22_AsStated ==
  [][\A c \in Calls :
       (call[c].pc = "refresh" /\ call'[c] # call[c] /\ GotTokens(call'[c])) =>
         /\ call'[c].pc = "fetch2"
         /\ call'[c].req.headers["Authorization"] =
              "Bearer " \o call'[c].authorization.access_token]_vars

\* C23 as stated: every request the executor has in flight carries
\* Authorization: Bearer <the access token stored when it was issued>,
\* whatever headers the caller gave.
C23_AsStated ==
  \A c \in Calls :
    (ThroughExecutor(call[c]) /\ call[c].req # NoRequest) =>
      call[c].req.headers["Authorization"] = "Bearer " \o nsAccessToken

\* C24: a token exchange (refresh or authorization code) that fails, by a
\* rejected fetch, a body that does not parse, a null body or a body with an
\* error, leaves the access token and the refresh token as they were; an
\* exchange that succeeds overwrites both with the fields of the answer, an
\* absent field included.
C24_ExchangeWritesTokens ==
  [][\A c \in Calls :
       (call[c].pc \in {"refresh", "exchange"} /\ call'[c] # call[c]) =>
         IF GotTokens(call'[c])
           THEN /\ nsAccessToken' = call'[c].authorization.access_token
                /\ nsRefreshToken' = call'[c].authorization.refresh_token
           ELSE /\ call'[c].authorization.net = "rejected"
                     \/ call'[c].authorization.json \in {"invalid", "null"}
                     \/ call'[c].authorization.error = "truthy"
                /\ nsAccessToken' = nsAccessToken
                /\ nsRefreshToken' = nsRefreshToken]_vars

\* a refresh exchange answered an error and the stored pair is still A1, R1
C24_Witness ==
  \E c \in Calls :
    /\ call[c].authorization.error = "truthy"
    /\ call[c].caught = AuthorizationError("refresh_token")
    /\ nsAccessToken = "A1"
    /\ nsRefreshToken = "R1"

\* C26: signIn() takes the probe branch exactly when a non-empty access token
\* is stored, wherever the token came from: no prompt, no nonce and no
\* authorization-code exchange, only GET /record/v1/account; right after
\* logout() no token is stored, so signIn() prompts, also on an instance that
\* was constructed with a token.
C26_StoredTokenDecides ==
  /\ [][\A c \in Calls :
          SignInStarts(c) =>
            IF ~Falsy(nsAccessToken)
              THEN /\ call'[c].pc = "fetch1"
                   /\ call'[c].prompts = 0
                   /\ call'[c].exchanges = 0
                   /\ call'[c].url = "/record/v1/account"
                   /\ nsState' = nsState
                   /\ nsCode' = nsCode
              ELSE /\ call'[c].pc = "prompt"
                   /\ call'[c].prompts = 1
                   /\ call'[c].requests = 0]_vars
  /\ [](last = "logout" => Falsy(nsAccessToken))
  /\ [](\A c \in Calls :
          (call[c].op = "signIn" /\ call[c].prompts = 0 /\ call[c].pc # "idle") =>
            /\ ThroughExecutor(call[c])
            /\ call[c].exchanges = 0)

\* on an instance constructed without a token, a signIn() after an interactive
\* signIn() runs the probe with the token of the exchange
C26_Witness ==
  \E c \in Calls :
    /\ args.token = Undefined
    /\ nsState = "uuid1"
    /\ nsCode = "code1"
    /\ call[c].op = "signIn"
    /\ call[c].pc = "fetch1"
    /\ call[c].prompts = 0
    /\ call[c].req.headers["Authorization"] = "Bearer A1"

\* C27 as stated: on an instance that signed in through the prompt and was not
\* logged out since, a successful refresh exchange made with a non-empty stored
\* refresh token leaves a non-empty refresh token stored, also when the answer
\* has no refresh_token.
C27_AsStated ==
  [][\A c \in Calls :
       ( /\ call[c].pc = "refresh"
         /\ call'[c] # call[c]
         /\ GotTokens(call'[c])
         /\ nsState \in Nonces
         /\ nsCode \in Codes
         /\ nsRefreshToken \in RefreshTokens ) =>
         nsRefreshToken' \in RefreshTokens]_vars

\* C25: against an endpoint that answers 401 to every request, a call through
\* the executor ends with the max-retries error after 3 inner attempts and 3
\* refresh exchanges; it issued 6 requests if every refresh exchange succeeded
\* (a valid refresh token is stored) and 3 requests if every one failed.  The
\* call is looked at until the caller invokes the next operation.
C25_AlwaysUnauthorized ==
  \A c \in Calls :
    LET cl == call[c] IN
    /\ (ThroughExecutor(cl) /\ cl.pc = "done" /\ last = cl.op) =>
         /\ cl.outcome.kind = "throw"
         /\ cl.outcome.error = MaxRetriesError(cl.method, cl.url)
         /\ cl.outcome.error # AuthenticationError(cl.received.statusText)
         /\ cl.attempts = 3
         /\ cl.refreshes = 3
         /\ cl.requests = IF nsRefreshToken \in RefreshTokens THEN 6 ELSE 3
    /\ (ThroughExecutor(cl) /\ cl.pc = "fetch2") => nsRefreshToken \in RefreshTokens
    /\ (ThroughExecutor(cl) /\ cl.pc # "done") =>
         cl.requests <= (IF nsRefreshToken \in RefreshTokens \/ cl.pc = "refresh"
                           THEN 2 * cl.attempts ELSE cl.attempts)

\* six requests and three successful refresh exchanges, then the max-retries error
C25_Witness ==
  \E c \in Calls :
    /\ call[c].pc = "done"
    /\ call[c].requests = 6
    /\ call[c].refreshes = 3
    /\ nsRefreshToken = "R1"
    /\ last = "requestPost"
    /\ call[c].caught = AuthenticationError("Unauthorized")
    /\ call[c].outcome.error = MaxRetriesError("POST", "/record/v1/invoice")

====
